---- MODULE Spec2Model ----
(***************************************************************************)
(* Progmy: combat resolution core.                                         *)
(*                                                                         *)
(*   StatusEffectSystem  attack-rate stun ("stack overflow") and the       *)
(*                       random debuff ("bug mode")                        *)
(*   ScoreSystem         push / stage / commit / bonus ledgers             *)
(*   Fighter             damage, knockback, hitstun, stocks                *)
(*   BattleScene         KO handling and respawn                           *)
(*                                                                         *)
(* Units.  Times are milliseconds.  Ratings the source writes as decimal   *)
(* fractions are kept as integers: a rating r is stored as 100 * r, a      *)
(* probability p as 10000 * p, and a Math.random() draw x as 10000 * x     *)
(* (so a draw ranges over 0 .. 9999).                                      *)
(***************************************************************************)
EXTENDS Integers, Sequences, FiniteSets

VARIABLES
    now,            \* scene clock (this.time.now)
    fighterStates,  \* StatusEffectSystem.fighterStates
    ret,            \* value returned by the last call ("void" when none)
    calls,          \* calls made so far in a scenario that counts them
    wallNow,        \* wall clock (Date.now())
    scores,         \* ScoreSystem.scores
    damageHistory,  \* ScoreSystem.damageHistory
    koStreak,       \* per victim: recordKO calls since the last recordDamage against it
    allFighters,    \* BattleScene.allFighters, each with its Fighter fields
    delayedCalls,   \* callbacks scheduled with scene.time.delayedCall and not yet run
    respawnTimers,  \* BattleScene.respawnTimers
    lastAttackers,  \* BattleScene.lastAttackers
    hits,           \* the takeDamage calls made by the last operation
    combo,          \* BattleScene.comboCounter and comboTimer
    swingHits,      \* per attacker and victim: hits landed by the attacker's current swing
    lastCall,       \* the Fighter method called by the last step ("none" where not recorded)
    ai,             \* the AIController under study ("none" when there is none)
    view,           \* what that controller reads of its fighter and its enemies
    lastRoll,       \* the first draw of the controller's last makeDecision (-1: none yet)
    gameState       \* BattleScene.gameState

statusVars == <<now, fighterStates, ret>>
scoreVars == <<wallNow, scores, damageHistory, koStreak>>
battleVars ==
    <<allFighters, delayedCalls, respawnTimers, lastAttackers, hits, combo, swingHits>>
aiVars == <<ai, view, lastRoll>>
vars ==
    <<now, fighterStates, ret, calls, wallNow, scores, damageHistory, koStreak,
      allFighters, delayedCalls, respawnTimers, lastAttackers, hits, combo,
      swingHits, lastCall, ai, view, lastRoll, gameState>>

\* No computer-controlled fighter.
AIIdle ==
    /\ ai = "none"
    /\ view = "none"
    /\ lastRoll = -1

\* No battle in progress.
BattleIdle ==
    /\ allFighters = <<>>
    /\ delayedCalls = {}
    /\ respawnTimers = <<>>
    /\ lastAttackers = <<>>
    /\ hits = {}
    /\ combo = [counter |-> 0, timer |-> 0]
    /\ swingHits = <<>>
    /\ lastCall = "none"

Min(a, b) == IF a < b THEN a ELSE b
Max(a, b) == IF a > b THEN a ELSE b

(***************************************************************************)
(* StatusEffectSystem                                                      *)
(***************************************************************************)
ATTACK_WINDOW == 5000
BASE_SO_THRESHOLD == 15
SO_STUN_DURATION == 2000
BUG_BASE_CHANCE == 100
BUG_DURATION == 3000
BUG_EXTENSION == 500
BUG_EXTRA_CHANCE == 3000
MAX_BUG_EFFECTS == 3

\* enum BugEffect, in declaration order (the order of Object.values).
BugEffect ==
    <<"reversed_controls", "no_jump", "random_attack", "slow_movement", "visual_glitch">>

\* Rated character ids; any other id takes the 0.5 default.
RatedIds ==
    {"c", "cpp", "rust", "go", "java", "csharp", "python", "javascript", "typescript",
     "haskell", "swift", "kotlin", "ruby", "php", "lua", "assembly"}

MEMORY_MANAGEMENT ==
    [id \in RatedIds |->
        CASE id = "c" -> 30 [] id = "cpp" -> 35 [] id = "rust" -> 90 [] id = "go" -> 70
          [] id = "java" -> 80 [] id = "csharp" -> 75 [] id = "python" -> 65
          [] id = "javascript" -> 60 [] id = "typescript" -> 65 [] id = "haskell" -> 85
          [] id = "swift" -> 70 [] id = "kotlin" -> 70 [] id = "ruby" -> 55
          [] id = "php" -> 40 [] id = "lua" -> 50 [] id = "assembly" -> 20]

ROBUSTNESS ==
    [id \in RatedIds |->
        CASE id = "c" -> 30 [] id = "cpp" -> 40 [] id = "rust" -> 95 [] id = "go" -> 70
          [] id = "java" -> 65 [] id = "csharp" -> 60 [] id = "python" -> 50
          [] id = "javascript" -> 35 [] id = "typescript" -> 55 [] id = "haskell" -> 90
          [] id = "swift" -> 65 [] id = "kotlin" -> 65 [] id = "ruby" -> 45
          [] id = "php" -> 30 [] id = "lua" -> 50 [] id = "assembly" -> 25]

\* MEMORY_MANAGEMENT[characterId] || 0.5
memoryMgmt(id) == IF id \in RatedIds THEN MEMORY_MANAGEMENT[id] ELSE 50
\* ROBUSTNESS[characterId] || 0.5
robustness(id) == IF id \in RatedIds THEN ROBUSTNESS[id] ELSE 50

\* Math.floor(BASE_SO_THRESHOLD * (1 + memoryMgmt))
soThreshold(id) == (BASE_SO_THRESHOLD * (100 + memoryMgmt(id))) \div 100
\* BUG_BASE_CHANCE * (2 - robustness), in units of 1/10000
bugProbability(id) == (BUG_BASE_CHANCE * (200 - robustness(id))) \div 100

\* The state registerFighter stores for a fighter with character id `id`.
registerFighter(id) ==
    [stackOverflow |->
        [attackCounter |-> 0,
         windowStart   |-> 0,
         threshold     |-> soThreshold(id),
         stunDuration  |-> SO_STUN_DURATION,
         isStunned     |-> FALSE,
         stunTimer     |-> 0],
     bug |->
        [isActive    |-> FALSE,
         duration    |-> 0,
         effects     |-> <<>>,
         probability |-> bugProbability(id)]]

Range(s) == {s[i] : i \in 1..Len(s)}

\* Math.floor(Math.random() * n), 0-based
randomIndex(draw, n) == (draw * n) \div 10000

\* Variant: the window has expired once its full duration has passed.
resetWindowIfExpired_Inclusive(so, time) ==
    IF time - so.windowStart >= ATTACK_WINDOW
    THEN [so EXCEPT !.attackCounter = 0, !.windowStart = time]
    ELSE so

\* if (time - windowStart > ATTACK_WINDOW) { attackCounter = 0; windowStart = time }
resetWindowIfExpired(so, time) ==
    IF time - so.windowStart > ATTACK_WINDOW
    THEN [so EXCEPT !.attackCounter = 0, !.windowStart = time]
    ELSE so

\* Variant: the breach leaves the counter where it is.
triggerStackOverflow_KeepsCounter(so) ==
    [so EXCEPT !.isStunned = TRUE, !.stunTimer = so.stunDuration]

triggerStackOverflow(so) ==
    [so EXCEPT !.isStunned = TRUE, !.stunTimer = so.stunDuration, !.attackCounter = 0]

\* Variant: the breach test is > instead of >=.
onAttackRegistered_StrictBreach(so, time) ==
    IF so.isStunned
    THEN [so |-> so, allowed |-> FALSE]
    ELSE LET w == resetWindowIfExpired(so, time)
             c == [w EXCEPT !.attackCounter = @ + 1]
         IN  IF c.attackCounter > c.threshold
             THEN [so |-> triggerStackOverflow(c), allowed |-> FALSE]
             ELSE [so |-> c, allowed |-> TRUE]

\* Variant: no check of the stun flag.
onAttackRegistered_NoStunCheck(so, time) ==
    LET w == resetWindowIfExpired(so, time)
        c == [w EXCEPT !.attackCounter = @ + 1]
    IN  IF c.attackCounter >= c.threshold
        THEN [so |-> triggerStackOverflow(c), allowed |-> FALSE]
        ELSE [so |-> c, allowed |-> TRUE]

\* onAttack on a registered fighter: the new stackOverflow state and the result.
onAttackRegistered(so, time) ==
    IF so.isStunned
    THEN [so |-> so, allowed |-> FALSE]
    ELSE LET w == resetWindowIfExpired(so, time)
             c == [w EXCEPT !.attackCounter = @ + 1]
         IN  IF c.attackCounter >= c.threshold
             THEN [so |-> triggerStackOverflow(c), allowed |-> FALSE]
             ELSE [so |-> c, allowed |-> TRUE]

\* allEffects.filter(e => !existing.includes(e)), then a uniform pick; "null" if none.
getRandomBugEffect(existing, draw) ==
    LET available == SelectSeq(BugEffect, LAMBDA e : e \notin Range(existing))
    IN  IF Len(available) = 0
        THEN "null"
        ELSE available[randomIndex(draw, Len(available)) + 1]

triggerBug(bug, draw) ==
    [bug EXCEPT !.isActive = TRUE,
                !.duration = BUG_DURATION,
                !.effects  = <<getRandomBugEffect(<<>>, draw)>>]

\* if (Math.random() < probability) triggerBug(): every state the roll can leave.
rollBugTrigger(bug, draws) ==
    UNION { IF roll < bug.probability
            THEN {triggerBug(bug, pick) : pick \in draws}
            ELSE {bug} : roll \in draws }

\* const e = getRandomBugEffect(effects); if (e) effects.push(e)
pushNewEffect(bug, draw) ==
    LET newEffect == getRandomBugEffect(bug.effects, draw)
    IN  IF newEffect # "null"
        THEN [bug EXCEPT !.effects = Append(@, newEffect)]
        ELSE bug

\* if (isActive) { duration += 500; if (length < 3 && random < 0.3) push another }
worsenBug(bug, draws) ==
    IF bug.isActive
    THEN LET ext == [bug EXCEPT !.duration = @ + BUG_EXTENSION]
         IN  UNION { IF Len(ext.effects) < MAX_BUG_EFFECTS /\ roll < BUG_EXTRA_CHANCE
                     THEN {pushNewEffect(ext, pick) : pick \in draws}
                     ELSE {ext} : roll \in draws }
    ELSE {bug}

\* Every bug state one onTakeDamage call can leave, over the outcomes `draws` of each
\* Math.random() call.
onTakeDamageOutcomes(bug, draws) ==
    UNION { worsenBug(b, draws) : b \in rollBugTrigger(bug, draws) }

\* Variant: the stun ends only once the timer has gone below zero.
updateStun_EndsBelowZero(so, delta) ==
    IF so.isStunned
    THEN LET t == so.stunTimer - delta
         IN  [so EXCEPT !.stunTimer = t, !.isStunned = ~(t < 0)]
    ELSE so

\* update(fighter, delta) on the stackOverflow part
updateStun(so, delta) ==
    IF so.isStunned
    THEN LET t == so.stunTimer - delta
         IN  [so EXCEPT !.stunTimer = t, !.isStunned = ~(t <= 0)]
    ELSE so

\* Variant: expiry clears the flag but keeps the effects.
updateBug_KeepsEffects(bug, delta) ==
    IF bug.isActive
    THEN LET d == bug.duration - delta
         IN  [bug EXCEPT !.duration = d, !.isActive = ~(d <= 0)]
    ELSE bug

\* update(fighter, delta) on the bug part
updateBug(bug, delta) ==
    IF bug.isActive
    THEN LET d == bug.duration - delta
         IN  IF d <= 0
             THEN [bug EXCEPT !.duration = d, !.isActive = FALSE, !.effects = <<>>]
             ELSE [bug EXCEPT !.duration = d]
    ELSE bug

clearEffectsState(st) ==
    [st EXCEPT !.bug.isActive = FALSE,
               !.bug.effects = <<>>,
               !.stackOverflow.isStunned = FALSE,
               !.stackOverflow.attackCounter = 0]

(***************************************************************************)
(* ScoreSystem                                                             *)
(*                                                                         *)
(* Damage amounts are stored times 1000 (so 40 is 40000) and the four      *)
(* score fields times 10000 (so 100 points are 1000000); the multipliers   *)
(* 0.5, 0.3 and 0.2 are the integers 5, 3 and 2 in tenths.                 *)
(***************************************************************************)
PUSH_POINTS == 100
STAGE_MULTIPLIER == 5
COMMIT_MULTIPLIER == 3
COMBO_BONUS == 10
DAMAGE_EXPIRE_TIME == 15000
STAGE_WEIGHT == 3
COMMIT_WEIGHT == 2
ScoreUnit == 10000

\* map.get(key) || fallback
mapGet(map, key, fallback) == IF key \in DOMAIN map THEN map[key] ELSE fallback
\* map.set(key, value)
mapSet(map, key, value) == [k \in DOMAIN map \cup {key} |-> IF k = key THEN value ELSE map[k]]

\* The state of a system with no fighter registered, and what registerFighter adds.
emptyScoreSystem == [scores |-> <<>>, damageHistory |-> <<>>]

registerScore(sys, fighter) ==
    [scores |-> mapSet(sys.scores, fighter, [push |-> 0, stage |-> 0, commit |-> 0, bonus |-> 0]),
     damageHistory |-> mapSet(sys.damageHistory, fighter, <<>>)]

\* history.filter(record => now - record.timestamp < DAMAGE_EXPIRE_TIME)
unexpired(history, tnow) ==
    SelectSeq(history, LAMBDA r : tnow - r.timestamp < DAMAGE_EXPIRE_TIME)

cleanExpiredRecords(history, tnow) == unexpired(history, tnow)

recordDamageState(sys, attacker, victim, amount, tnow) ==
    LET staged == IF attacker \in DOMAIN sys.scores
                  THEN [sys.scores EXCEPT ![attacker].stage = @ + amount * STAGE_MULTIPLIER]
                  ELSE sys.scores
        victimHistory ==
            Append(mapGet(sys.damageHistory, victim, <<>>),
                   [attacker |-> attacker, amount |-> amount, timestamp |-> tnow])
    IN  [scores |-> staged,
         damageHistory |-> mapSet(sys.damageHistory, victim, cleanExpiredRecords(victimHistory, tnow))]

\* .reduce((sum, r) => sum + r.amount, 0)
RECURSIVE sumAmounts(_)
sumAmounts(records) ==
    IF records = <<>> THEN 0 ELSE Head(records).amount + sumAmounts(Tail(records))

\* Variant: the killer is not left out.
recentDamagers_WithKiller(history, killer, tnow) ==
    {r.attacker : r \in Range(unexpired(history, tnow))}

\* The attackers with an unexpired record against the victim, the killer left out.
recentDamagers(history, killer, tnow) ==
    {r.attacker : r \in {x \in Range(unexpired(history, tnow)) : x.attacker # killer}}

\* Variant: the age of a record is not looked at.
contribution_CountsExpired(history, damager, tnow) ==
    sumAmounts(SelectSeq(history, LAMBDA r : r.attacker = damager))

\* .filter(r => r.attacker === damager && unexpired).reduce(sum of amounts)
contribution(history, damager, tnow) ==
    sumAmounts(SelectSeq(history,
        LAMBDA r : r.attacker = damager /\ tnow - r.timestamp < DAMAGE_EXPIRE_TIME))

\* Variant: the victim's ledger is not cleared.
recordKOState_KeepsLedger(sys, victim, killer, tnow) ==
    LET pushed == IF killer # "null" /\ killer \in DOMAIN sys.scores
                  THEN [sys.scores EXCEPT ![killer].push = @ + PUSH_POINTS * ScoreUnit]
                  ELSE sys.scores
        history == mapGet(sys.damageHistory, victim, <<>>)
        damagers == recentDamagers(history, killer, tnow)
        committed ==
            [f \in DOMAIN pushed |->
                IF f \in damagers
                THEN [pushed[f] EXCEPT
                        !.commit = @ + contribution(history, f, tnow) * COMMIT_MULTIPLIER]
                ELSE pushed[f]]
    IN  [scores |-> committed, damageHistory |-> sys.damageHistory]

\* Variant: the commit award replaces the accumulator instead of adding to it.
recordKOState_CommitAssigned(sys, victim, killer, tnow) ==
    LET pushed == IF killer # "null" /\ killer \in DOMAIN sys.scores
                  THEN [sys.scores EXCEPT ![killer].push = @ + PUSH_POINTS * ScoreUnit]
                  ELSE sys.scores
        history == mapGet(sys.damageHistory, victim, <<>>)
        damagers == recentDamagers(history, killer, tnow)
        committed ==
            [f \in DOMAIN pushed |->
                IF f \in damagers
                THEN [pushed[f] EXCEPT
                        !.commit = contribution(history, f, tnow) * COMMIT_MULTIPLIER]
                ELSE pushed[f]]
    IN  [scores |-> committed,
         damageHistory |-> mapSet(sys.damageHistory, victim, <<>>)]

\* recordKO(victim, killer); killer "null" when there is none.
recordKOState(sys, victim, killer, tnow) ==
    LET pushed == IF killer # "null" /\ killer \in DOMAIN sys.scores
                  THEN [sys.scores EXCEPT ![killer].push = @ + PUSH_POINTS * ScoreUnit]
                  ELSE sys.scores
        history == mapGet(sys.damageHistory, victim, <<>>)
        damagers == recentDamagers(history, killer, tnow)
        committed ==
            [f \in DOMAIN pushed |->
                IF f \in damagers
                THEN [pushed[f] EXCEPT
                        !.commit = @ + contribution(history, f, tnow) * COMMIT_MULTIPLIER]
                ELSE pushed[f]]
    IN  [scores |-> committed,
         damageHistory |-> mapSet(sys.damageHistory, victim, <<>>)]

addComboBonusState(sys, fighter, comboCount) ==
    IF fighter \in DOMAIN sys.scores
    THEN [sys EXCEPT !.scores[fighter].bonus = @ + COMBO_BONUS * comboCount * ScoreUnit]
    ELSE sys

\* Math.floor(push + stage * 0.3 + commit * 0.2 + bonus), in whole points
totalOf(score) ==
    (10 * score.push + STAGE_WEIGHT * score.stage + COMMIT_WEIGHT * score.commit
        + 10 * score.bonus) \div (10 * ScoreUnit)

getTotalScore(fighter) == IF fighter \in DOMAIN scores THEN totalOf(scores[fighter]) ELSE 0

getScoreBreakdown(fighter) ==
    mapGet(scores, fighter, [push |-> 0, stage |-> 0, commit |-> 0, bonus |-> 0])

\* Math.floor(score.push / PUSH_POINTS)
getPushCount(fighter) ==
    IF fighter \in DOMAIN scores THEN scores[fighter].push \div (PUSH_POINTS * ScoreUnit) ELSE 0

(***************************************************************************)
(* Inputs and bounds of the score specification                            *)
(***************************************************************************)
MaxCalls == 4
MaxWall == 15002
ScoreFighters == {"A", "B", "V"}
\* The fighters that get hit and knocked out, and the human player (who scores combos).
Victims == {"B", "V"}
Player == "A"
Amounts == {10000, 40000}
ComboCounts == {0, 3}
WallSteps == {7499, 7501}

scoreSystem == [scores |-> scores, damageHistory |-> damageHistory]

recordDamage(attacker, victim, amount) ==
    LET sys == recordDamageState(scoreSystem, attacker, victim, amount, wallNow)
    IN  /\ scores' = sys.scores
        /\ damageHistory' = sys.damageHistory
        /\ koStreak' = [koStreak EXCEPT ![victim] = 0]
        /\ UNCHANGED wallNow

recordKO(victim, killer) ==
    LET sys == recordKOState(scoreSystem, victim, killer, wallNow)
    IN  /\ scores' = sys.scores
        /\ damageHistory' = sys.damageHistory
        /\ koStreak' = [koStreak EXCEPT ![victim] = @ + 1]
        /\ UNCHANGED wallNow

addComboBonus(fighter, comboCount) ==
    LET sys == addComboBonusState(scoreSystem, fighter, comboCount)
    IN  /\ scores' = sys.scores
        /\ UNCHANGED <<damageHistory, koStreak, wallNow>>

AdvanceWall(d) ==
    /\ wallNow + d <= MaxWall
    /\ wallNow' = wallNow + d
    /\ UNCHANGED <<scores, damageHistory, koStreak>>

RECURSIVE registerAll(_, _)
registerAll(sys, fighters) ==
    IF fighters = {}
    THEN sys
    ELSE LET f == CHOOSE x \in fighters : TRUE
         IN  registerAll(registerScore(sys, f), fighters \ {f})

\* No fighter registered, nothing recorded.
ScoreIdle ==
    /\ wallNow = 0
    /\ scores = <<>>
    /\ damageHistory = <<>>
    /\ koStreak = <<>>

InitScore ==
    /\ wallNow = 0
    /\ scores = registerAll(emptyScoreSystem, ScoreFighters).scores
    /\ damageHistory = registerAll(emptyScoreSystem, ScoreFighters).damageHistory
    /\ koStreak = [f \in ScoreFighters |-> 0]
    /\ calls = 0
    /\ gameState = "playing"
    /\ now = 0
    /\ fighterStates = <<>>
    /\ ret = "void"
    /\ BattleIdle
    /\ AIIdle

\* A call of the scoring interface, counted.
ScoreCall(A) ==
    /\ calls < MaxCalls /\ A /\ calls' = calls + 1
    /\ UNCHANGED <<statusVars, battleVars, aiVars, lastCall, gameState>>

NextScore ==
    \/ \E a \in ScoreFighters, v \in Victims, amount \in Amounts :
            a # v /\ ScoreCall(recordDamage(a, v, amount))
    \/ \E v \in Victims, k \in ScoreFighters \cup {"null"} :
            k # v /\ ScoreCall(recordKO(v, k))
    \/ \E n \in ComboCounts : ScoreCall(addComboBonus(Player, n))
    \/ \E d \in WallSteps :
            AdvanceWall(d) /\ UNCHANGED <<calls, statusVars, battleVars, aiVars, lastCall, gameState>>

SpecScore == InitScore /\ [][NextScore]_vars

(***************************************************************************)
(* Inputs and bounds of the status specifications                          *)
(***************************************************************************)
MaxTime == 5002
MaxBugDuration == 3500
\* Callers of the system, named by character id.  One of them is registered.
StatusFighters == {"rust", "assembly", "dart"}
ClockSteps == {2500, 2501}
FrameDeltas == {1000, 2000}
\* Math.random() draws, in units of 1/10000: a grid over [0, 1), and its two ends.
RandomDraws == {0, 2500, 5000, 7500, 9999}
ExtremeDraws == {0, 9999}

registered(f) == f \in DOMAIN fighterStates

onAttack(f) ==
    /\ IF registered(f)
       THEN LET r == onAttackRegistered(fighterStates[f].stackOverflow, now)
            IN  /\ fighterStates' = [fighterStates EXCEPT ![f].stackOverflow = r.so]
                /\ ret' = IF r.allowed THEN "true" ELSE "false"
       ELSE /\ ret' = "true"
            /\ UNCHANGED fighterStates
    /\ UNCHANGED now

\* The debuff of f can be extended once more within the duration bound.
WithinBugDuration(f) ==
    registered(f) => fighterStates[f].bug.duration + BUG_EXTENSION <= MaxBugDuration

onTakeDamage(f, draws) ==
    /\ IF registered(f)
       THEN \E b \in onTakeDamageOutcomes(fighterStates[f].bug, draws) :
                fighterStates' = [fighterStates EXCEPT ![f].bug = b]
       ELSE UNCHANGED fighterStates
    /\ ret' = "void"
    /\ UNCHANGED now

update(f, delta) ==
    /\ IF registered(f)
       THEN fighterStates' =
                [fighterStates EXCEPT
                    ![f].stackOverflow = updateStun(@, delta),
                    ![f].bug = updateBug(@, delta)]
       ELSE UNCHANGED fighterStates
    /\ ret' = "void"
    /\ UNCHANGED now

\* state?.stackOverflow.isStunned || false
isStunned(f) == IF registered(f) THEN fighterStates[f].stackOverflow.isStunned ELSE FALSE

\* state?.bug.isActive || false
isBugged(f) == IF registered(f) THEN fighterStates[f].bug.isActive ELSE FALSE

\* Variant: a fighter without a state is reported with a placeholder effect.
getBugEffects_Placeholder(f) ==
    IF registered(f) THEN fighterStates[f].bug.effects ELSE <<"none">>

\* state?.bug.effects || []
getBugEffects(f) == IF registered(f) THEN fighterStates[f].bug.effects ELSE <<>>

\* attackCounter / threshold, in ten-thousandths
getStackOverflowProgress(f) ==
    IF ~registered(f) THEN 0
    ELSE (10000 * fighterStates[f].stackOverflow.attackCounter)
            \div fighterStates[f].stackOverflow.threshold

clearEffects(f) ==
    /\ IF registered(f)
       THEN fighterStates' = [fighterStates EXCEPT ![f] = clearEffectsState(@)]
       ELSE UNCHANGED fighterStates
    /\ ret' = "void"
    /\ UNCHANGED now

AdvanceClock(d) ==
    /\ now + d <= MaxTime
    /\ now' = now + d
    /\ UNCHANGED <<fighterStates, ret>>

InitStatus(id) ==
    /\ now = 0
    /\ calls = 0
    /\ gameState = "playing"
    /\ fighterStates = [f \in {id} |-> registerFighter(id)]
    /\ ret = "void"
    /\ ScoreIdle
    /\ BattleIdle
    /\ AIIdle

\* The attack-rate limiter under a moving clock; the debuff rolls take their extremes.
InitStackOverflow == InitStatus("rust")

\* A step of the status system alone.
StatusCall(A) == A /\ UNCHANGED <<calls, scoreVars, battleVars, aiVars, lastCall, gameState>>

NextStackOverflow ==
    \/ \E f \in StatusFighters : StatusCall(onAttack(f))
    \/ \E f \in StatusFighters :
            StatusCall(WithinBugDuration(f) /\ onTakeDamage(f, ExtremeDraws))
    \/ \E f \in StatusFighters, delta \in FrameDeltas : StatusCall(update(f, delta))
    \/ \E f \in StatusFighters : StatusCall(clearEffects(f))
    \/ \E d \in ClockSteps : StatusCall(AdvanceClock(d))

SpecStackOverflow == InitStackOverflow /\ [][NextStackOverflow]_vars

\* The debuff under every draw of the grid, within one attack window.
InitBug == InitStatus("assembly")

NextBug ==
    \/ \E f \in StatusFighters : StatusCall(onAttack(f))
    \/ \E f \in StatusFighters :
            StatusCall(WithinBugDuration(f) /\ onTakeDamage(f, RandomDraws))
    \/ \E f \in StatusFighters, delta \in FrameDeltas : StatusCall(update(f, delta))
    \/ \E f \in StatusFighters : StatusCall(clearEffects(f))

SpecBug == InitBug /\ [][NextBug]_vars

\* Damage events and frames of one registered fighter, each call named and counted.
MaxBugOps == 5
HitFighter == "assembly"
InitBugHits == InitStatus(HitFighter)

BugHitCall(A, name) ==
    /\ calls < MaxBugOps
    /\ A
    /\ calls' = calls + 1
    /\ lastCall' = name
    /\ UNCHANGED gameState
    /\ UNCHANGED <<scoreVars, battleVars, aiVars>>

NextBugHits ==
    \/ BugHitCall(onTakeDamage(HitFighter, RandomDraws), "onTakeDamage")
    \/ \E delta \in FrameDeltas : BugHitCall(update(HitFighter, delta), "update")

SpecBugHits == InitBugHits /\ [][NextBugHits]_vars

(***************************************************************************)
(* Consecutive attacks of a freshly registered fighter: onAttack calls     *)
(* only, the first at a start time drawn in Init, the clock moving between *)
(* calls without letting the window expire.                                *)
(***************************************************************************)
ScenarioIds == {"rust", "assembly", "java", "dart"}
ScenarioStarts == {0, 6000}
ScenarioSteps == {2500}

InitConsecutive ==
    /\ now \in ScenarioStarts
    /\ calls = 0
    /\ gameState = "playing"
    /\ \E id \in ScenarioIds : fighterStates = [f \in {id} |-> registerFighter(id)]
    /\ ret = "void"
    /\ ScoreIdle
    /\ BattleIdle
    /\ AIIdle

ConsecutiveAttack(f) ==
    /\ registered(f)
    /\ calls < fighterStates[f].stackOverflow.threshold
    /\ onAttack(f)
    /\ calls' = calls + 1

StayInWindow(f, d) ==
    /\ registered(f)
    /\ calls > 0
    /\ now + d - fighterStates[f].stackOverflow.windowStart <= ATTACK_WINDOW
    /\ now' = now + d
    /\ UNCHANGED <<fighterStates, ret, calls>>

NextConsecutive ==
    \/ \E f \in ScenarioIds :
            ConsecutiveAttack(f) /\ UNCHANGED <<scoreVars, battleVars, aiVars, lastCall, gameState>>
    \/ \E f \in ScenarioIds, d \in ScenarioSteps :
            StayInWindow(f, d) /\ UNCHANGED <<scoreVars, battleVars, aiVars, lastCall, gameState>>

SpecConsecutive == InitConsecutive /\ [][NextConsecutive]_vars

(***************************************************************************)
(* Attack attempts of a freshly registered fighter within one span of the  *)
(* window's length that starts inside the window opened at registration    *)
(* (windowStart = 0): the first attempt at SpanStart, the clock moving     *)
(* between attempts up to SpanStart + ATTACK_WINDOW.                       *)
(***************************************************************************)
SpanStart == 3000
SpanSteps == {1000, 2500}
SpanIds == {"assembly", "rust"}

InitSpan ==
    /\ now = SpanStart
    /\ calls = 0
    /\ gameState = "playing"
    /\ \E id \in SpanIds : fighterStates = [f \in {id} |-> registerFighter(id)]
    /\ ret = "void"
    /\ ScoreIdle
    /\ BattleIdle
    /\ AIIdle

StayInSpan(d) ==
    /\ calls > 0
    /\ now + d <= SpanStart + ATTACK_WINDOW
    /\ now' = now + d
    /\ UNCHANGED <<fighterStates, ret, calls>>

NextSpan ==
    \/ \E f \in SpanIds :
            ConsecutiveAttack(f) /\ UNCHANGED <<scoreVars, battleVars, aiVars, lastCall, gameState>>
    \/ \E d \in SpanSteps :
            StayInSpan(d) /\ UNCHANGED <<scoreVars, battleVars, aiVars, lastCall, gameState>>

SpecSpan == InitSpan /\ [][NextSpan]_vars

(***************************************************************************)
(* Fighter                                                                 *)
(*                                                                         *)
(* Units.  Damage (and a hit's amount) is kept in thousandths of a         *)
(* percent, knockback in whole px/s, a velocity component in 1/100000 px/s *)
(* (knockback x (100000 + damage)), and the remaining delay of a scheduled *)
(* callback in microseconds.                                               *)
(***************************************************************************)
STARTING_STOCKS == 3
HITSTUN_BASE == 100000
HITSTUN_CAP == 500000
VelocityUnit == 100000
logicAtkMultiplier == 100

\* The character table.  type holds the words of the archetype string, which
\* the personality of an AI controller is read from.
CharacterIds ==
    {"c_lang", "assembly", "cpp", "rust", "python", "javascript", "java", "go",
     "haskell", "swift", "ruby", "kotlin", "typescript", "csharp", "lua", "dart"}

characters ==
    [id \in CharacterIds |->
        CASE id = "c_lang" ->
                [type |-> <<"Low-level", "Attacker">>,
                 stats |-> [physical_atk |-> 95, logic_atk |-> 20, speed |-> 60],
                 special_move |->
                    [damage |-> 150, cooldown |-> 12000, range |-> 300, type |-> "physical"]]
          [] id = "assembly" ->
                [type |-> <<"Ultra", "Low-level", "Glass", "Cannon">>,
                 stats |-> [physical_atk |-> 100, logic_atk |-> 10, speed |-> 90],
                 special_move |->
                    [damage |-> 200, cooldown |-> 15000, range |-> 500, type |-> "physical"]]
          [] id = "cpp" ->
                [type |-> <<"Mid-level", "Versatile", "Tank">>,
                 stats |-> [physical_atk |-> 75, logic_atk |-> 60, speed |-> 50],
                 special_move |->
                    [damage |-> 120, cooldown |-> 10000, range |-> 200, type |-> "physical"]]
          [] id = "rust" ->
                [type |-> <<"Low-level", "Defender">>,
                 stats |-> [physical_atk |-> 70, logic_atk |-> 50, speed |-> 65],
                 special_move |->
                    [damage |-> 80, cooldown |-> 8000, range |-> 250, type |-> "utility"]]
          [] id = "python" ->
                [type |-> <<"High-level", "Mage">>,
                 stats |-> [physical_atk |-> 20, logic_atk |-> 90, speed |-> 40],
                 special_move |->
                    [damage |-> 130, cooldown |-> 11000, range |-> 400, type |-> "logic"]]
          [] id = "javascript" ->
                [type |-> <<"High-level", "Trickster">>,
                 stats |-> [physical_atk |-> 30, logic_atk |-> 75, speed |-> 85],
                 special_move |->
                    [damage |-> 100, cooldown |-> 9000, range |-> 350, type |-> "logic"]]
          [] id = "java" ->
                [type |-> <<"High-level", "Standardist">>,
                 stats |-> [physical_atk |-> 50, logic_atk |-> 60, speed |-> 45],
                 special_move |->
                    [damage |-> 110, cooldown |-> 10000, range |-> 450, type |-> "logic"]]
          [] id = "go" ->
                [type |-> <<"Mid-level", "Speedster">>,
                 stats |-> [physical_atk |-> 60, logic_atk |-> 65, speed |-> 95],
                 special_move |->
                    [damage |-> 90, cooldown |-> 8000, range |-> 300, type |-> "physical"]]
          [] id = "haskell" ->
                [type |-> <<"High-level", "Tactician">>,
                 stats |-> [physical_atk |-> 10, logic_atk |-> 95, speed |-> 55],
                 special_move |->
                    [damage |-> 180, cooldown |-> 14000, range |-> 500, type |-> "logic"]]
          [] id = "swift" ->
                [type |-> <<"High-level", "Agile">>,
                 stats |-> [physical_atk |-> 55, logic_atk |-> 70, speed |-> 80],
                 special_move |->
                    [damage |-> 100, cooldown |-> 7000, range |-> 200, type |-> "physical"]]
          [] id = "ruby" ->
                [type |-> <<"High-level", "Artist">>,
                 stats |-> [physical_atk |-> 35, logic_atk |-> 80, speed |-> 60],
                 special_move |->
                    [damage |-> 95, cooldown |-> 8000, range |-> 300, type |-> "logic"]]
          [] id = "kotlin" ->
                [type |-> <<"High-level", "Tactical", "Balanced">>,
                 stats |-> [physical_atk |-> 50, logic_atk |-> 70, speed |-> 70],
                 special_move |->
                    [damage |-> 70, cooldown |-> 6000, range |-> 150, type |-> "utility"]]
          [] id = "typescript" ->
                [type |-> <<"High-level", "Defensive", "Trickster">>,
                 stats |-> [physical_atk |-> 30, logic_atk |-> 80, speed |-> 80],
                 special_move |->
                    [damage |-> 85, cooldown |-> 7000, range |-> 300, type |-> "logic"]]
          [] id = "csharp" ->
                [type |-> <<"Mid-level", "Power", "Tank">>,
                 stats |-> [physical_atk |-> 65, logic_atk |-> 70, speed |-> 50],
                 special_move |->
                    [damage |-> 115, cooldown |-> 9000, range |-> 400, type |-> "logic"]]
          [] id = "lua" ->
                [type |-> <<"High-level", "Scout">>,
                 stats |-> [physical_atk |-> 40, logic_atk |-> 60, speed |-> 100],
                 special_move |->
                    [damage |-> 60, cooldown |-> 5000, range |-> 350, type |-> "utility"]]
          [] id = "dart" ->
                [type |-> <<"High-level", "UI", "Fighter">>,
                 stats |-> [physical_atk |-> 45, logic_atk |-> 75, speed |-> 85],
                 special_move |->
                    [damage |-> 0, cooldown |-> 15000, range |-> 0, type |-> "utility"]]]

AttackTypes == {"light", "medium", "heavy"}
\* { light: 1.0, medium: 1.5, heavy: 2.2 } and { light: 1.0, medium: 1.3, heavy: 1.8 }, in tenths
multipliers ==
    [t \in AttackTypes |-> CASE t = "light" -> 10 [] t = "medium" -> 15 [] t = "heavy" -> 22]
knockbackMult ==
    [t \in AttackTypes |-> CASE t = "light" -> 10 [] t = "medium" -> 13 [] t = "heavy" -> 18]

\* Fighter.calculateDamage of a fighter of character id whose currentAttackType
\* and facingRight fields hold the given values.  Knockback is in whole px/s:
\* the special knockback 200 + amount (and its 1.5-fold in createSpecialEffect)
\* is exact for the characters whose special amount is a whole even number,
\* rust, lua, java, go, kotlin, csharp and assembly, which are the ones the
\* specifications let strike with a special move.
calculateDamage(id, isSpecial, currentAttackType, facingRight) ==
    LET c == characters[id]
        dir == IF facingRight THEN 1 ELSE -1
    IN  IF isSpecial
        THEN LET base == c.special_move.damage * 1000
                 amount ==
                    CASE c.special_move.type = "logic" ->
                            (base * logicAtkMultiplier) \div 100 + c.stats.logic_atk * 500
                      [] c.special_move.type = "physical" ->
                            base + c.stats.physical_atk * 500
                      [] OTHER -> base
             IN  [amount |-> amount,
                  knockbackX |-> dir * (200 + amount \div 1000),
                  knockbackY |-> -150]
        ELSE LET base == 8000 + c.stats.physical_atk * 150
                 mult == multipliers[currentAttackType]
                 kbMult == knockbackMult[currentAttackType]
             IN  [amount |-> (base * mult) \div 10,
                  knockbackX |-> (dir * 150 * kbMult) \div 10,
                  knockbackY |-> (-50 * kbMult) \div 10]

\* The fields a Fighter is constructed with.
\* The spawn points of the stage.
spawnPoints == <<<<400, 450>>, <<880, 450>>, <<300, 300>>, <<980, 300>>>>

\* A fighter as constructed (placed at the first spawn point).
newFighter ==
    [position |-> spawnPoints[1],
     damage |-> 0, stocks |-> STARTING_STOCKS,
     isGrounded |-> FALSE, isHitstun |-> FALSE, isInvincible |-> FALSE,
     isAttacking |-> FALSE, isUsingSpecial |-> FALSE, animState |-> "idle",
     canDoubleJump |-> TRUE, jumpsRemaining |-> 2, currentAttackType |-> "light",
     specialCooldown |-> 0, attackCooldown |-> 0, subAbilityCooldown |-> 0,
     hitTargets |-> {}, skillDelayMultiplier |-> 100, subComponent |-> "none",
     activeBugEffects |-> <<>>,
     velocity |-> <<0, 0>>, visible |-> TRUE, bodyEnable |-> TRUE]

\* Variant: the stock count is not floored at zero.
loseStockState_NoFloor(fighter) == [fighter EXCEPT !.stocks = @ - 1]

\* this.stocks = Math.max(0, this.stocks - 1)
loseStockState(fighter) == [fighter EXCEPT !.stocks = Max(0, @ - 1)]

\* 1 + this.damage / 100, in 1/100000
knockbackMultiplier(damage) == VelocityUnit + damage

\* Variant: the duration is not capped.
hitstunDuration_Uncapped(damage) == HITSTUN_BASE + damage * 2

\* Math.min(100 + this.damage * 2, 500), in microseconds
hitstunDuration(damage) == Min(HITSTUN_BASE + damage * 2, HITSTUN_CAP)

\* Variant: the knockback is scaled by the damage held before the hit is added.
takeDamageState_ScalesBeforeAdding(fighter, amount, knockbackX, knockbackY) ==
    IF fighter.isInvincible
    THEN [fighter |-> fighter, delayed |-> {}]
    ELSE LET damage == fighter.damage + amount
         IN  [fighter |->
                [fighter EXCEPT
                    !.damage = damage,
                    !.isHitstun = TRUE,
                    !.velocity = <<knockbackX * knockbackMultiplier(fighter.damage),
                                   knockbackY * knockbackMultiplier(fighter.damage)>>],
              delayed |-> {[callback |-> "hitstunEnd", delay |-> hitstunDuration(damage)]}]

\* Variant: invincibility is not checked.
takeDamageState_IgnoresInvincibility(fighter, amount, knockbackX, knockbackY) ==
    LET damage == fighter.damage + amount
    IN  [fighter |->
            [fighter EXCEPT
                !.damage = damage,
                !.isHitstun = TRUE,
                !.velocity = <<knockbackX * knockbackMultiplier(damage),
                               knockbackY * knockbackMultiplier(damage)>>],
         delayed |-> {[callback |-> "hitstunEnd", delay |-> hitstunDuration(damage)]}]

\* Fighter.takeDamage: the fighter afterwards and the callbacks it schedules.
takeDamageState(fighter, amount, knockbackX, knockbackY) ==
    IF fighter.isInvincible
    THEN [fighter |-> fighter, delayed |-> {}]
    ELSE LET damage == fighter.damage + amount
         IN  [fighter |->
                [fighter EXCEPT
                    !.damage = damage,
                    !.isHitstun = TRUE,
                    !.velocity = <<knockbackX * knockbackMultiplier(damage),
                                   knockbackY * knockbackMultiplier(damage)>>],
              delayed |-> {[callback |-> "hitstunEnd", delay |-> hitstunDuration(damage)]}]

\* Variant: a swing in progress survives the respawn.
respawnState_KeepsSwing(fighter, x, y) ==
    [fighter EXCEPT
        !.position = <<x, y>>,
        !.velocity = <<0, 0>>,
        !.damage = 0,
        !.isHitstun = FALSE,
        !.isUsingSpecial = FALSE,
        !.activeBugEffects = <<>>]

\* Fighter.respawn
respawnState(fighter, x, y) ==
    [fighter EXCEPT
        !.position = <<x, y>>,
        !.velocity = <<0, 0>>,
        !.damage = 0,
        !.isHitstun = FALSE,
        !.isAttacking = FALSE,
        !.isUsingSpecial = FALSE,
        !.hitTargets = {},
        !.activeBugEffects = <<>>]

\* Fighter.activateInvincibility: the fighter afterwards and the callback it schedules.
activateInvincibilityState(fighter, duration) ==
    [fighter |-> [fighter EXCEPT !.isInvincible = TRUE],
     delayed |-> {[callback |-> "invincibleEnd", delay |-> duration * 1000]}]

\* scene.time.delayedCall(delay, callback) for each callback a fighter schedules
delayedCall(pending, f, delayed) ==
    pending \cup {[fighter |-> f, callback |-> d.callback, remaining |-> d.delay] : d \in delayed}

\* The callbacks: () => { this.isHitstun = false }, () => { this.isInvincible = false },
\* () => { this.isAttacking = false; this.hitTargets.clear() } and
\* () => { this.isUsingSpecial = false }
runCallbacks(fighter, callbacks) ==
    [fighter EXCEPT
        !.isHitstun = IF "hitstunEnd" \in callbacks THEN FALSE ELSE @,
        !.isInvincible =
            IF {"invincibleEnd", "respawnInvincibleEnd"} \cap callbacks # {} THEN FALSE ELSE @,
        !.isAttacking = IF "attackEnd" \in callbacks THEN FALSE ELSE @,
        !.hitTargets = IF "attackEnd" \in callbacks THEN {} ELSE @,
        !.isUsingSpecial = IF "specialEnd" \in callbacks THEN FALSE ELSE @,
        !.animState = IF "specialEnd" \in callbacks /\ @ = "special" THEN "idle" ELSE @]

(***************************************************************************)
(* Fighter: cooldowns, jumping, swings, the special move, the companion    *)
(***************************************************************************)
\* { light: 200, medium: 400, heavy: 600 } and { light: 150, medium: 250, heavy: 400 }
cooldowns ==
    [t \in AttackTypes |-> CASE t = "light" -> 200 [] t = "medium" -> 400 [] t = "heavy" -> 600]
durations ==
    [t \in AttackTypes |-> CASE t = "light" -> 150 [] t = "medium" -> 250 [] t = "heavy" -> 400]
SPECIAL_ANIMATION == 500

\* The companions a fighter can carry: what the passive effect makes of
\* skillDelayMultiplier (in 1/100), the cooldown of the active ability and the
\* invincibility it grants (0: none, the ability changes nothing modelled here).
SubComponentIds == {"bash", "powershell", "gui"}
subComponents ==
    [id \in SubComponentIds |->
        CASE id = "bash" -> [skillDelayMultiplier |-> 80, cooldown |-> 10000, invincibility |-> 0]
          [] id = "powershell" ->
                [skillDelayMultiplier |-> 100, cooldown |-> 15000, invincibility |-> 2000]
          [] id = "gui" -> [skillDelayMultiplier |-> 100, cooldown |-> 8000, invincibility |-> 1500]]

\* A new fighter carrying the companion sub ("none": no companion), its passive applied.
newFighterWith(sub) ==
    IF sub = "none" THEN newFighter
    ELSE [newFighter EXCEPT !.subComponent = sub,
                            !.skillDelayMultiplier = subComponents[sub].skillDelayMultiplier]

\* if (cooldown > 0) cooldown -= delta
tick(cooldown, delta) == IF cooldown > 0 THEN cooldown - delta ELSE cooldown

\* Fighter.update(delta); touchingDown is body.blocked.down || body.touching.down.
\* The animState updateAnimationState leaves.
updateAnimationState(fighter) ==
    IF fighter.isAttacking THEN fighter.animState
    ELSE IF fighter.isHitstun THEN "hurt"
    ELSE IF ~fighter.isGrounded
    THEN IF fighter.velocity[2] < 0 THEN "jump" ELSE "fall"
    ELSE IF fighter.velocity[1] > 20 * VelocityUnit \/ fighter.velocity[1] < -20 * VelocityUnit
    THEN "walk"
    ELSE "idle"

updateState(fighter, delta, touchingDown) ==
    [fighter EXCEPT
        !.specialCooldown = tick(@, delta),
        !.attackCooldown = tick(@, delta),
        !.subAbilityCooldown = tick(@, delta),
        !.animState = updateAnimationState(fighter),
        !.isGrounded = touchingDown,
        !.jumpsRemaining = IF touchingDown THEN 2 ELSE @,
        !.canDoubleJump = IF touchingDown THEN TRUE ELSE @]

\* this.jumpForce = 450 + character.stats.speed
jumpForce(id) == 450 + characters[id].stats.speed

\* Fighter.jump: the fighter afterwards and the value returned.  The vertical velocity
\* is -jumpForce from the ground and -jumpForce * 0.85 in the air.
jumpState(id, fighter) ==
    IF fighter.isHitstun THEN [fighter |-> fighter, result |-> FALSE]
    ELSE IF fighter.isGrounded
    THEN [fighter |-> [fighter EXCEPT !.velocity[2] = -jumpForce(id) * VelocityUnit,
                                      !.jumpsRemaining = @ - 1],
          result |-> TRUE]
    ELSE IF fighter.jumpsRemaining > 0
    THEN [fighter |-> [fighter EXCEPT !.velocity[2] = -jumpForce(id) * (VelocityUnit \div 100) * 85,
                                      !.jumpsRemaining = @ - 1],
          result |-> TRUE]
    ELSE [fighter |-> fighter, result |-> FALSE]

\* Variant: hitstun does not stop a swing.
attackState_IgnoresHitstun(fighter, type) ==
    IF fighter.attackCooldown > 0
    THEN [fighter |-> fighter, delayed |-> {}]
    ELSE [fighter |-> [fighter EXCEPT
                          !.isAttacking = TRUE,
                          !.currentAttackType = type,
                          !.animState = "attack",
                          !.hitTargets = {},
                          !.attackCooldown = (cooldowns[type] * fighter.skillDelayMultiplier) \div 100],
          delayed |-> {[callback |-> "attackEnd", delay |-> durations[type] * 1000]}]

\* Fighter.attack: the fighter afterwards and the callback it schedules.
attackState(fighter, type) ==
    IF fighter.isHitstun \/ fighter.attackCooldown > 0
    THEN [fighter |-> fighter, delayed |-> {}]
    ELSE [fighter |-> [fighter EXCEPT
                          !.isAttacking = TRUE,
                          !.currentAttackType = type,
                          !.animState = "attack",
                          !.hitTargets = {},
                          !.attackCooldown = (cooldowns[type] * fighter.skillDelayMultiplier) \div 100],
          delayed |-> {[callback |-> "attackEnd", delay |-> durations[type] * 1000]}]

hasHitThisAttack(fighter, target) == target \in fighter.hitTargets

\* Variant: the hit is not remembered.
markHit_Forgets(fighter, target) == fighter

markHit(fighter, target) == [fighter EXCEPT !.hitTargets = @ \cup {target}]

\* Fighter.useSpecial
useSpecialState(id, fighter) ==
    IF fighter.isHitstun \/ fighter.specialCooldown > 0
    THEN [fighter |-> fighter, delayed |-> {}]
    ELSE [fighter |-> [fighter EXCEPT
                          !.isUsingSpecial = TRUE,
                          !.animState = "special",
                          !.specialCooldown =
                              (characters[id].special_move.cooldown * fighter.skillDelayMultiplier)
                                  \div 100],
          delayed |-> {[callback |-> "specialEnd", delay |-> SPECIAL_ANIMATION * 1000]}]

\* Fighter.useSubAbility, the active ability executed
useSubAbilityState(fighter) ==
    IF fighter.subComponent = "none" \/ fighter.subAbilityCooldown > 0
    THEN [fighter |-> fighter, delayed |-> {}]
    ELSE LET sub == subComponents[fighter.subComponent]
             spent == [fighter EXCEPT
                          !.subAbilityCooldown = (sub.cooldown * fighter.skillDelayMultiplier) \div 100]
         IN  IF sub.invincibility > 0
             THEN activateInvincibilityState(spent, sub.invincibility)
             ELSE [fighter |-> spent, delayed |-> {}]

(***************************************************************************)
(* BattleScene: special-move damage, KO handling and respawn               *)
(***************************************************************************)
RESPAWN_DELAY == 2000
INVINCIBILITY_TIME == 3000
KILLER_WINDOW == 10000
\* the human player's fighter and the computer-controlled ones
playerId == "rust"
enemyIds == {"lua"}
FighterIds == {playerId} \cup enemyIds
\* playerIndex is 0 for the player and i + 1 for the i-th enemy; a fighter is created
\* and respawned at spawnPoints[playerIndex % spawnPoints.length].
playerIndex(f) == IF f = playerId THEN 0 ELSE 1
spawn(f) == spawnPoints[(playerIndex(f) % Len(spawnPoints)) + 1]
newFighterAt(f) == [newFighter EXCEPT !.position = spawn(f)]

mapDelete(map, key) == [k \in DOMAIN map \ {key} |-> map[k]]

\* One pass of the loop body of createSpecialEffect: world is the fighters, the
\* pending callbacks, the last attackers, the score system and the takeDamage
\* calls made so far.
specialHit(world, fighter, target, damage, time, wall) ==
    LET r == takeDamageState(world.fighters[target], damage.amount,
                             (damage.knockbackX * 3) \div 2, (damage.knockbackY * 3) \div 2)
    IN  [fighters |-> [world.fighters EXCEPT ![target] = r.fighter],
         pending |-> delayedCall(world.pending, target, r.delayed),
         lastAttackers |-> mapSet(world.lastAttackers, target, [attacker |-> fighter, time |-> time]),
         sys |-> recordDamageState(world.sys, fighter, target, damage.amount, wall),
         hits |-> world.hits \cup
                    {[fighter |-> target, amount |-> damage.amount,
                      knockbackX |-> (damage.knockbackX * 3) \div 2,
                      knockbackY |-> (damage.knockbackY * 3) \div 2]}]

RECURSIVE createSpecialEffectState(_, _, _, _, _, _)
createSpecialEffectState(world, fighter, targets, damage, time, wall) ==
    IF targets = {}
    THEN world
    ELSE LET target == CHOOSE t \in targets : TRUE
             next == IF world.fighters[target].isInvincible
                     THEN world
                     ELSE specialHit(world, fighter, target, damage, time, wall)
         IN  createSpecialEffectState(next, fighter, targets \ {target}, damage, time, wall)

(***************************************************************************)
(* Operations on fighters and the scene                                    *)
(***************************************************************************)
takeDamage(f, amount, knockbackX, knockbackY) ==
    LET r == takeDamageState(allFighters[f], amount, knockbackX, knockbackY)
    IN  /\ allFighters' = [allFighters EXCEPT ![f] = r.fighter]
        /\ delayedCalls' = delayedCall(delayedCalls, f, r.delayed)
        /\ hits' = {[fighter |-> f, amount |-> amount,
                     knockbackX |-> knockbackX, knockbackY |-> knockbackY]}
        /\ UNCHANGED <<respawnTimers, lastAttackers, now, scoreVars>>

loseStock(f) ==
    /\ allFighters' = [allFighters EXCEPT ![f] = loseStockState(@)]
    /\ hits' = {}
    /\ UNCHANGED <<delayedCalls, respawnTimers, lastAttackers, now, scoreVars>>

respawn(f, x, y) ==
    /\ allFighters' = [allFighters EXCEPT ![f] = respawnState(@, x, y)]
    /\ hits' = {}
    /\ UNCHANGED <<delayedCalls, respawnTimers, lastAttackers, now, scoreVars>>

activateInvincibility(f, duration) ==
    LET r == activateInvincibilityState(allFighters[f], duration)
    IN  /\ allFighters' = [allFighters EXCEPT ![f] = r.fighter]
        /\ delayedCalls' = delayedCall(delayedCalls, f, r.delayed)
        /\ hits' = {}
        /\ UNCHANGED <<respawnTimers, lastAttackers, now, scoreVars>>

\* BattleScene.createSpecialEffect; inRange holds the fighters closer to the
\* user than the special move's range, facingRight is the user's field.
createSpecialEffect(fighter, facingRight, inRange) ==
    LET damage == calculateDamage(fighter, TRUE, "light", facingRight)
        world == [fighters |-> allFighters, pending |-> delayedCalls,
                  lastAttackers |-> lastAttackers, sys |-> scoreSystem, hits |-> {}]
        after == createSpecialEffectState(world, fighter,
                    (DOMAIN allFighters \ {fighter}) \cap inRange, damage, now, wallNow)
    IN  /\ allFighters' = after.fighters
        /\ delayedCalls' = after.pending
        /\ lastAttackers' = after.lastAttackers
        /\ scores' = after.sys.scores
        /\ damageHistory' = after.sys.damageHistory
        /\ koStreak' = [v \in DOMAIN koStreak |->
                            IF \E h \in after.hits : h.fighter = v THEN 0 ELSE koStreak[v]]
        /\ hits' = after.hits
        /\ UNCHANGED <<respawnTimers, now, wallNow>>

\* Variant: without the check of a hidden or disabled fighter.
handleKO_ChecksTimerOnly(fighter) ==
    /\ hits' = {}
    /\ UNCHANGED now
    /\ IF fighter \in DOMAIN respawnTimers
       THEN UNCHANGED <<allFighters, delayedCalls, respawnTimers, lastAttackers, scoreVars>>
       ELSE LET killer == IF /\ fighter \in DOMAIN lastAttackers
                             /\ now - lastAttackers[fighter].time < KILLER_WINDOW
                          THEN lastAttackers[fighter].attacker
                          ELSE "null"
                hidden == [allFighters[fighter] EXCEPT
                              !.visible = FALSE, !.bodyEnable = FALSE, !.velocity = <<0, 0>>]
                lost == loseStockState(hidden)
            IN  /\ recordKO(fighter, killer)
                /\ allFighters' = [allFighters EXCEPT ![fighter] = lost]
                /\ respawnTimers' = IF lost.stocks > 0
                                    THEN mapSet(respawnTimers, fighter, RESPAWN_DELAY)
                                    ELSE respawnTimers
                /\ lastAttackers' = mapDelete(lastAttackers, fighter)
                /\ UNCHANGED delayedCalls

\* BattleScene.handleKO
handleKO(fighter) ==
    /\ hits' = {}
    /\ UNCHANGED now
    /\ IF \/ fighter \in DOMAIN respawnTimers
          \/ ~allFighters[fighter].visible
          \/ ~allFighters[fighter].bodyEnable
       THEN UNCHANGED <<allFighters, delayedCalls, respawnTimers, lastAttackers, scoreVars>>
       ELSE LET killer == IF /\ fighter \in DOMAIN lastAttackers
                             /\ now - lastAttackers[fighter].time < KILLER_WINDOW
                          THEN lastAttackers[fighter].attacker
                          ELSE "null"
                hidden == [allFighters[fighter] EXCEPT
                              !.visible = FALSE, !.bodyEnable = FALSE, !.velocity = <<0, 0>>]
                lost == loseStockState(hidden)
            IN  /\ recordKO(fighter, killer)
                /\ allFighters' = [allFighters EXCEPT ![fighter] = lost]
                /\ respawnTimers' = IF lost.stocks > 0
                                    THEN mapSet(respawnTimers, fighter, RESPAWN_DELAY)
                                    ELSE respawnTimers
                /\ lastAttackers' = mapDelete(lastAttackers, fighter)
                /\ UNCHANGED delayedCalls

\* Variant: the respawn waits until the delay is exceeded.
updateRespawnTimer_WhenExceeded(fighter, delta) ==
    /\ hits' = {}
    /\ UNCHANGED <<lastAttackers, now, scoreVars>>
    /\ IF fighter \notin DOMAIN respawnTimers
       THEN UNCHANGED <<allFighters, delayedCalls, respawnTimers>>
       ELSE LET remaining == respawnTimers[fighter] - delta
            IN  IF remaining < 0
                THEN /\ respawnTimers' = mapDelete(respawnTimers, fighter)
                     /\ allFighters' =
                            [allFighters EXCEPT
                                ![fighter] = [respawnState(@, spawn(fighter)[1], spawn(fighter)[2])
                                              EXCEPT
                                                !.visible = TRUE,
                                                !.bodyEnable = TRUE,
                                                !.isInvincible = TRUE]]
                     /\ delayedCalls' =
                            delayedCall(delayedCalls, fighter,
                                {[callback |-> "respawnInvincibleEnd",
                                  delay |-> INVINCIBILITY_TIME * 1000]})
                ELSE /\ respawnTimers' = mapSet(respawnTimers, fighter, remaining)
                     /\ UNCHANGED <<allFighters, delayedCalls>>

\* BattleScene.updateRespawnTimer
updateRespawnTimer(fighter, delta) ==
    /\ hits' = {}
    /\ UNCHANGED <<lastAttackers, now, scoreVars>>
    /\ IF fighter \notin DOMAIN respawnTimers
       THEN UNCHANGED <<allFighters, delayedCalls, respawnTimers>>
       ELSE LET remaining == respawnTimers[fighter] - delta
            IN  IF remaining <= 0
                THEN /\ respawnTimers' = mapDelete(respawnTimers, fighter)
                     /\ allFighters' =
                            [allFighters EXCEPT
                                ![fighter] = [respawnState(@, spawn(fighter)[1], spawn(fighter)[2])
                                              EXCEPT
                                                !.visible = TRUE,
                                                !.bodyEnable = TRUE,
                                                !.isInvincible = TRUE]]
                     /\ delayedCalls' =
                            delayedCall(delayedCalls, fighter,
                                {[callback |-> "respawnInvincibleEnd",
                                  delay |-> INVINCIBILITY_TIME * 1000]})
                ELSE /\ respawnTimers' = mapSet(respawnTimers, fighter, remaining)
                     /\ UNCHANGED <<allFighters, delayedCalls>>

\* BattleScene.applyBugEffects on the fighter's fields: isBugged and isStunned
\* are false for a fighter the status system does not know.
applyBugEffectsState(fighter, states, f) ==
    LET bugged == f \in DOMAIN states /\ states[f].bug.isActive
        stunned == f \in DOMAIN states /\ states[f].stackOverflow.isStunned
    IN  [fighter EXCEPT
            !.activeBugEffects = IF bugged THEN states[f].bug.effects ELSE <<>>,
            !.isHitstun = IF stunned THEN TRUE ELSE @]

\* The body of the loop over allFighters in BattleScene.update, for one fighter:
\* a fighter waiting to respawn only has its respawn timer updated; any other has
\* statusSystem.update, applyBugEffects and Fighter.update called in this order.
updateFighterFrame(f, delta, touchingDown) ==
    IF f \in DOMAIN respawnTimers
    THEN /\ updateRespawnTimer(f, delta)
         /\ lastCall' = "updateRespawnTimer"
         /\ UNCHANGED gameState
         /\ ret' = "void"
         /\ UNCHANGED <<fighterStates, combo, swingHits>>
    ELSE LET states == IF registered(f)
                       THEN [fighterStates EXCEPT
                                ![f].stackOverflow = updateStun(@, delta),
                                ![f].bug = updateBug(@, delta)]
                       ELSE fighterStates
         IN  /\ fighterStates' = states
             /\ allFighters' =
                    [allFighters EXCEPT
                        ![f] = updateState(applyBugEffectsState(@, states, f),
                                           delta, touchingDown)]
             /\ hits' = {}
             /\ lastCall' = "update"
             /\ UNCHANGED gameState
             /\ ret' = "void"
             /\ UNCHANGED <<delayedCalls, respawnTimers, lastAttackers, now, scoreVars,
                            combo, swingHits>>

\* The scene clock advances by delta: the callbacks that fall due run, the
\* others come closer.  The wall clock advances with it.
clockUpdate(delta) ==
    LET due == {c \in delayedCalls : c.remaining <= delta * 1000}
    IN  /\ now' = now + delta
        /\ wallNow' = wallNow + delta
        /\ delayedCalls' =
                {[c EXCEPT !.remaining = @ - delta * 1000] : c \in delayedCalls \ due}
        /\ allFighters' =
                [f \in DOMAIN allFighters |->
                    runCallbacks(allFighters[f], {c.callback : c \in {d \in due : d.fighter = f}})]
        /\ hits' = {}
        /\ UNCHANGED <<respawnTimers, lastAttackers, scores, damageHistory, koStreak>>

(***************************************************************************)
(* Moves of a fighter and the overlap handler                              *)
(***************************************************************************)
COMBO_WINDOW == 1500

\* The hits counted for a swing of f are forgotten when f starts another.
newSwing(counted, f) == [p \in {q \in DOMAIN counted : q[1] # f} |-> counted[p]]

attack(f, type) ==
    LET r == attackState(allFighters[f], type)
    IN  /\ allFighters' = [allFighters EXCEPT ![f] = r.fighter]
        /\ delayedCalls' = delayedCall(delayedCalls, f, r.delayed)
        /\ swingHits' = IF r.delayed # {} THEN newSwing(swingHits, f) ELSE swingHits
        /\ hits' = {}
        /\ lastCall' = "attack"
        /\ UNCHANGED gameState
        /\ ret' = "void"
        /\ UNCHANGED <<respawnTimers, lastAttackers, now, scoreVars, combo, fighterStates>>

jump(f) ==
    LET r == jumpState(f, allFighters[f])
    IN  /\ allFighters' = [allFighters EXCEPT ![f] = r.fighter]
        /\ lastCall' = "jump"
        /\ UNCHANGED gameState
        /\ ret' = IF r.result THEN "true" ELSE "false"
        /\ hits' = {}
        /\ UNCHANGED <<delayedCalls, respawnTimers, lastAttackers, now, scoreVars, combo,
                       swingHits, fighterStates>>

\* Fighter.update(delta)
updateFighter(f, delta, touchingDown) ==
    /\ allFighters' = [allFighters EXCEPT ![f] = updateState(@, delta, touchingDown)]
    /\ hits' = {}
    /\ lastCall' = "update"
    /\ UNCHANGED gameState
    /\ ret' = "void"
    /\ UNCHANGED <<delayedCalls, respawnTimers, lastAttackers, now, scoreVars, combo,
                   swingHits, fighterStates>>

\* Fighter.setBugEffects(effects)
setBugEffects(f, effects) ==
    /\ allFighters' = [allFighters EXCEPT ![f].activeBugEffects = effects]
    /\ hits' = {}
    /\ lastCall' = "setBugEffects"
    /\ UNCHANGED gameState
    /\ ret' = "void"
    /\ UNCHANGED <<delayedCalls, respawnTimers, lastAttackers, now, scoreVars, combo,
                   swingHits, fighterStates>>

useSpecial(f) ==
    LET r == useSpecialState(f, allFighters[f])
    IN  /\ allFighters' = [allFighters EXCEPT ![f] = r.fighter]
        /\ delayedCalls' = delayedCall(delayedCalls, f, r.delayed)
        /\ hits' = {}
        /\ lastCall' = "useSpecial"
        /\ UNCHANGED gameState
        /\ ret' = "void"
        /\ UNCHANGED <<respawnTimers, lastAttackers, now, scoreVars, combo, swingHits,
                       fighterStates>>

useSubAbility(f) ==
    LET r == useSubAbilityState(allFighters[f])
    IN  /\ allFighters' = [allFighters EXCEPT ![f] = r.fighter]
        /\ delayedCalls' = delayedCall(delayedCalls, f, r.delayed)
        /\ hits' = {}
        /\ lastCall' = "useSubAbility"
        /\ UNCHANGED gameState
        /\ ret' = "void"
        /\ UNCHANGED <<respawnTimers, lastAttackers, now, scoreVars, combo, swingHits,
                       fighterStates>>

\* BattleScene.checkAttackHit(attacker, victim), called for a pair whose bodies
\* overlap; facingRight is the attacker's facing and draws the values the calls of
\* Math.random() in onTakeDamage may return.
checkAttackHit(attacker, victim, facingRight, draws) ==
    LET a == allFighters[attacker]
        v == allFighters[victim]
        canAttack ==
            IF registered(attacker)
            THEN onAttackRegistered(fighterStates[attacker].stackOverflow, now)
            ELSE [so |-> "none", allowed |-> TRUE]
        checked ==
            IF registered(attacker)
            THEN [fighterStates EXCEPT ![attacker].stackOverflow = canAttack.so]
            ELSE fighterStates
        damage == calculateDamage(attacker, a.isUsingSpecial, a.currentAttackType, facingRight)
        r == takeDamageState(v, damage.amount, damage.knockbackX, damage.knockbackY)
        recorded == recordDamageState(scoreSystem, attacker, victim, damage.amount, wallNow)
        counter == combo.counter + 1
        sys == IF attacker = playerId /\ counter >= 3
               THEN addComboBonusState(recorded, attacker, counter)
               ELSE recorded
    IN  /\ lastCall' = "checkAttackHit"
        /\ UNCHANGED gameState
        /\ ret' = "void"
        /\ UNCHANGED <<now, wallNow, respawnTimers>>
        /\ IF ~a.isAttacking \/ v.isInvincible \/ hasHitThisAttack(a, victim)
           THEN /\ hits' = {}
                /\ UNCHANGED <<allFighters, delayedCalls, lastAttackers, combo, swingHits,
                               fighterStates, scores, damageHistory, koStreak>>
           ELSE IF ~canAttack.allowed
           THEN /\ fighterStates' = checked
                /\ hits' = {}
                /\ UNCHANGED <<allFighters, delayedCalls, lastAttackers, combo, swingHits,
                               scores, damageHistory, koStreak>>
           ELSE /\ allFighters' =
                        [allFighters EXCEPT ![victim] = r.fighter,
                                            ![attacker] = markHit(a, victim)]
                /\ delayedCalls' = delayedCall(delayedCalls, victim, r.delayed)
                /\ hits' = {[fighter |-> victim, amount |-> damage.amount,
                             knockbackX |-> damage.knockbackX,
                             knockbackY |-> damage.knockbackY]}
                /\ swingHits' =
                        mapSet(swingHits, <<attacker, victim>>,
                               mapGet(swingHits, <<attacker, victim>>, 0) + 1)
                /\ scores' = sys.scores
                /\ damageHistory' = sys.damageHistory
                /\ koStreak' = [koStreak EXCEPT ![victim] = 0]
                /\ IF registered(victim)
                   THEN \E b \in onTakeDamageOutcomes(fighterStates[victim].bug, draws) :
                            fighterStates' = [checked EXCEPT ![victim].bug = b]
                   ELSE fighterStates' = checked
                /\ lastAttackers' =
                        mapSet(lastAttackers, victim, [attacker |-> attacker, time |-> now])
                /\ combo' = IF attacker = playerId
                            THEN [counter |-> counter, timer |-> COMBO_WINDOW]
                            ELSE combo

\* BattleScene.update, the combo timer
updateComboTimer(delta) ==
    /\ combo' = IF combo.timer > 0
                THEN [counter |-> IF combo.timer - delta <= 0 THEN 0 ELSE combo.counter,
                      timer |-> combo.timer - delta]
                ELSE combo
    /\ hits' = {}
    /\ lastCall' = "none"
    /\ UNCHANGED gameState
    /\ ret' = "void"
    /\ UNCHANGED <<allFighters, delayedCalls, respawnTimers, lastAttackers, now, scoreVars,
                   swingHits, fighterStates>>

(***************************************************************************)
(* One fighter, its methods called in every order                          *)
(***************************************************************************)
MaxOps == 7
FighterUnderTest == "rust"
\* takeDamage(10, -100, -50), the same amount with another knockback vector, the
\* special move of a go fighter facing right and that of a java fighter facing left
DirectHits ==
    {[amount |-> 10000, knockbackX |-> -100, knockbackY |-> -50],
     [amount |-> 10000, knockbackX |-> 300, knockbackY |-> 0],
     calculateDamage("go", TRUE, "light", TRUE),
     calculateDamage("java", TRUE, "light", FALSE)}
Deltas == {250, 1000}
InvincibilityDurations == {1500}

InitFighter ==
    /\ now = 0
    /\ calls = 0
    /\ gameState = "playing"
    /\ fighterStates = <<>>
    /\ ret = "void"
    /\ ScoreIdle
    /\ allFighters = [f \in {FighterUnderTest} |-> newFighter]
    /\ delayedCalls = {}
    /\ respawnTimers = <<>>
    /\ lastAttackers = <<>>
    /\ hits = {}
    /\ combo = [counter |-> 0, timer |-> 0]
    /\ swingHits = <<>>
    /\ lastCall = "none"
    /\ AIIdle

\* A call on the fighter or a step of the clock, counted.
FighterCall(A) ==
    /\ calls < MaxOps /\ A /\ calls' = calls + 1
    /\ UNCHANGED <<fighterStates, ret, combo, swingHits, aiVars, lastCall, gameState>>

NextFighter ==
    \/ \E h \in DirectHits :
            FighterCall(takeDamage(FighterUnderTest, h.amount, h.knockbackX, h.knockbackY))
    \/ FighterCall(loseStock(FighterUnderTest))
    \/ FighterCall(respawn(FighterUnderTest, spawn(FighterUnderTest)[1],
                            spawn(FighterUnderTest)[2]))
    \/ \E d \in InvincibilityDurations :
            FighterCall(activateInvincibility(FighterUnderTest, d))
    \/ \E d \in Deltas : FighterCall(clockUpdate(d))

SpecFighter == InitFighter /\ [][NextFighter]_vars

(***************************************************************************)
(* A battle: the player and an enemy, hit, knocked out and respawned       *)
(***************************************************************************)
MaxBattleOps == 5
MaxBattleTime == 12000
\* a light hit by the lua fighter facing right
BattleHits == {calculateDamage("lua", FALSE, "light", TRUE)}
BattleDeltas == {2000, 10000}

InitBattle ==
    /\ now = 0
    /\ wallNow = 0
    /\ calls = 0
    /\ gameState = "playing"
    /\ fighterStates = <<>>
    /\ ret = "void"
    /\ scores = registerAll(emptyScoreSystem, FighterIds).scores
    /\ damageHistory = registerAll(emptyScoreSystem, FighterIds).damageHistory
    /\ koStreak = [f \in FighterIds |-> 0]
    /\ allFighters = [f \in FighterIds |-> newFighterAt(f)]
    /\ delayedCalls = {}
    /\ respawnTimers = <<>>
    /\ lastAttackers = <<>>
    /\ hits = {}
    /\ combo = [counter |-> 0, timer |-> 0]
    /\ swingHits = <<>>
    /\ lastCall = "none"
    /\ AIIdle

\* A call on a fighter or on the scene, counted.
BattleCall(A) ==
    /\ calls < MaxBattleOps /\ A /\ calls' = calls + 1
    /\ UNCHANGED <<fighterStates, ret, combo, swingHits, aiVars, lastCall, gameState>>

NextBattle ==
    \/ \E f \in FighterIds, h \in BattleHits :
            BattleCall(takeDamage(f, h.amount, h.knockbackX, h.knockbackY))
    \/ \E f \in FighterIds : BattleCall(loseStock(f))
    \/ \E f \in FighterIds : BattleCall(respawn(f, spawn(f)[1], spawn(f)[2]))
    \/ \E facingRight \in BOOLEAN, inRange \in SUBSET enemyIds :
            BattleCall(createSpecialEffect(playerId, facingRight, inRange))
    \/ \E f \in FighterIds : BattleCall(handleKO(f))
    \/ \E f \in FighterIds, d \in BattleDeltas : BattleCall(updateRespawnTimer(f, d))
    \/ \E d \in BattleDeltas :
            /\ now + d <= MaxBattleTime
            /\ clockUpdate(d)
            /\ UNCHANGED <<calls, fighterStates, ret, combo, swingHits, aiVars, lastCall, gameState>>

SpecBattle == InitBattle /\ [][NextBattle]_vars

(***************************************************************************)
(* One fighter moving: swings, jumps, cooldowns, with or without companion *)
(***************************************************************************)
MaxMoves == 5
Companions == {"none", "bash", "gui"}
MoveDeltas == {100, 250}
\* takeDamage(10, -100, -50)
MoveHits == {[amount |-> 10000, knockbackX |-> -100, knockbackY |-> -50]}
\* respawn(880, 450), away from where the fighter was created
RespawnPoint == spawnPoints[2]
\* setBugEffects([BugEffect.NO_JUMP]) and setBugEffects([])
EffectLists == {<<"no_jump">>, <<>>}

InitMoves ==
    /\ now = 0
    /\ calls = 0
    /\ gameState = "playing"
    /\ fighterStates = <<>>
    /\ ret = "void"
    /\ ScoreIdle
    /\ \E sub \in Companions : allFighters = [f \in {FighterUnderTest} |-> newFighterWith(sub)]
    /\ delayedCalls = {}
    /\ respawnTimers = <<>>
    /\ lastAttackers = <<>>
    /\ hits = {}
    /\ combo = [counter |-> 0, timer |-> 0]
    /\ swingHits = <<>>
    /\ lastCall = "none"
    /\ AIIdle

\* An operation that leaves the status system, the combo and the swing count alone.
Named(A, name) ==
    A /\ lastCall' = name /\ UNCHANGED <<fighterStates, ret, combo, swingHits, gameState>>

\* A call on the fighter or a step of the clock, counted.
MoveCall(A) == calls < MaxMoves /\ A /\ calls' = calls + 1 /\ UNCHANGED aiVars

NextMoves ==
    \/ \E type \in AttackTypes : MoveCall(attack(FighterUnderTest, type))
    \/ MoveCall(jump(FighterUnderTest))
    \/ \E d \in MoveDeltas, touchingDown \in BOOLEAN :
            MoveCall(updateFighter(FighterUnderTest, d, touchingDown))
    \/ MoveCall(useSpecial(FighterUnderTest))
    \/ MoveCall(useSubAbility(FighterUnderTest))
    \/ \E h \in MoveHits :
            MoveCall(Named(takeDamage(FighterUnderTest, h.amount, h.knockbackX, h.knockbackY),
                           "takeDamage"))
    \/ MoveCall(Named(respawn(FighterUnderTest, RespawnPoint[1], RespawnPoint[2]), "respawn"))
    \/ \E effects \in EffectLists : MoveCall(setBugEffects(FighterUnderTest, effects))
    \/ \E d \in MoveDeltas : MoveCall(Named(clockUpdate(d), "none"))

SpecMoves == InitMoves /\ [][NextMoves]_vars

(***************************************************************************)
(* Invincibility grants: the player is knocked out, respawns and uses the  *)
(* companion's active ability                                              *)
(***************************************************************************)
MaxGrantOps == 6
GrantCompanions == {"powershell", "gui"}
GrantDeltas == {1000, 2000}

InitGrants ==
    /\ now = 0
    /\ wallNow = 0
    /\ calls = 0
    /\ gameState = "playing"
    /\ fighterStates = <<>>
    /\ ret = "void"
    /\ scores = registerAll(emptyScoreSystem, {playerId}).scores
    /\ damageHistory = registerAll(emptyScoreSystem, {playerId}).damageHistory
    /\ koStreak = [f \in {playerId} |-> 0]
    /\ \E sub \in GrantCompanions : allFighters = [f \in {playerId} |-> newFighterWith(sub)]
    /\ delayedCalls = {}
    /\ respawnTimers = <<>>
    /\ lastAttackers = <<>>
    /\ hits = {}
    /\ combo = [counter |-> 0, timer |-> 0]
    /\ swingHits = <<>>
    /\ lastCall = "none"
    /\ AIIdle

GrantCall(A) == calls < MaxGrantOps /\ A /\ calls' = calls + 1 /\ UNCHANGED aiVars

NextGrants ==
    \/ GrantCall(Named(handleKO(playerId), "none"))
    \/ \E d \in GrantDeltas : GrantCall(Named(updateRespawnTimer(playerId, d), "none"))
    \/ GrantCall(useSubAbility(playerId))
    \/ \E d \in GrantDeltas : GrantCall(updateFighter(playerId, d, TRUE))
    \/ \E h \in MoveHits :
            GrantCall(Named(takeDamage(playerId, h.amount, h.knockbackX, h.knockbackY),
                            "takeDamage"))
    \/ \E d \in GrantDeltas : GrantCall(Named(clockUpdate(d), "none"))

SpecGrants == InitGrants /\ [][NextGrants]_vars

(***************************************************************************)
(* Swings that land: the player and an enemy within reach of each other    *)
(***************************************************************************)
MaxSwingOps == 6
SwingTypes == {"light", "heavy"}
SwingDeltas == {100, 200}

InitSwing ==
    /\ now = 0
    /\ wallNow = 0
    /\ calls = 0
    /\ gameState = "playing"
    /\ fighterStates = [f \in FighterIds |-> registerFighter(f)]
    /\ ret = "void"
    /\ scores = registerAll(emptyScoreSystem, FighterIds).scores
    /\ damageHistory = registerAll(emptyScoreSystem, FighterIds).damageHistory
    /\ koStreak = [f \in FighterIds |-> 0]
    /\ allFighters = [f \in FighterIds |-> newFighterAt(f)]
    /\ delayedCalls = {}
    /\ respawnTimers = <<>>
    /\ lastAttackers = <<>>
    /\ hits = {}
    /\ combo = [counter |-> 0, timer |-> 0]
    /\ swingHits = <<>>
    /\ lastCall = "none"
    /\ AIIdle

SwingCall(A) == calls < MaxSwingOps /\ A /\ calls' = calls + 1 /\ UNCHANGED aiVars

NextSwing ==
    \/ \E f \in FighterIds, type \in SwingTypes : SwingCall(attack(f, type))
    \/ \E a \in FighterIds, v \in FighterIds :
            a # v /\ SwingCall(checkAttackHit(a, v, TRUE, ExtremeDraws))
    \/ \E f \in FighterIds, d \in SwingDeltas : SwingCall(updateFighter(f, d, TRUE))
    \/ \E d \in SwingDeltas : SwingCall(updateComboTimer(d))
    \/ \E d \in SwingDeltas : SwingCall(Named(clockUpdate(d), "none"))

SpecSwing == InitSwing /\ [][NextSwing]_vars

(***************************************************************************)
(* Frames of a battle: swings that land, the status system, KO and respawn *)
(* The player has attacked before: its attack counter starts at zero or    *)
(* one short of its threshold.                                             *)
(***************************************************************************)
MaxFrameOps == 6
FrameSteps == {1000, 2000}
PriorAttacks(f) == {0, registerFighter(f).stackOverflow.threshold - 1}

InitFrames ==
    /\ now = 0
    /\ wallNow = 0
    /\ calls = 0
    /\ gameState = "playing"
    /\ \E n \in PriorAttacks(playerId) :
            fighterStates =
                [f \in FighterIds |->
                    IF f = playerId
                    THEN [registerFighter(f) EXCEPT !.stackOverflow.attackCounter = n]
                    ELSE registerFighter(f)]
    /\ ret = "void"
    /\ scores = registerAll(emptyScoreSystem, FighterIds).scores
    /\ damageHistory = registerAll(emptyScoreSystem, FighterIds).damageHistory
    /\ koStreak = [f \in FighterIds |-> 0]
    /\ allFighters = [f \in FighterIds |-> newFighterAt(f)]
    /\ delayedCalls = {}
    /\ respawnTimers = <<>>
    /\ lastAttackers = <<>>
    /\ hits = {}
    /\ combo = [counter |-> 0, timer |-> 0]
    /\ swingHits = <<>>
    /\ lastCall = "none"
    /\ AIIdle

FrameCall(A) == calls < MaxFrameOps /\ A /\ calls' = calls + 1 /\ UNCHANGED aiVars

\* handlePlayerInput returns before reading the keys for a player that is out of
\* stocks, waits to respawn or is stunned.
acceptsInput(f) ==
    /\ allFighters[f].stocks > 0
    /\ f \notin DOMAIN respawnTimers
    /\ ~(registered(f) /\ fighterStates[f].stackOverflow.isStunned)

\* The physics engine reports an overlap only for two enabled bodies.
overlap(a, v) == allFighters[a].bodyEnable /\ allFighters[v].bodyEnable

NextFrames ==
    \/ acceptsInput(playerId) /\ FrameCall(attack(playerId, "light"))
    \/ \E v \in enemyIds :
            overlap(playerId, v) /\ FrameCall(checkAttackHit(playerId, v, TRUE, ExtremeDraws))
    \/ \E f \in FighterIds, d \in FrameSteps : FrameCall(updateFighterFrame(f, d, TRUE))
    \/ \E f \in FighterIds : FrameCall(Named(handleKO(f), "handleKO"))
    \/ \E d \in FrameSteps : FrameCall(Named(clockUpdate(d), "none"))

SpecFrames == InitFrames /\ [][NextFrames]_vars

(***************************************************************************)
(* AIController: skills, personality and the decision tree                 *)
(*                                                                         *)
(* Skills and personality weights are ratings (100 * the source's value).  *)
(* The controller reads its own fighter and its enemies through `view`:    *)
(*   view.self     damage (x1000), isGrounded, specialCooldown (ms)        *)
(*   view.enemies  the list given to setEnemies, each enemy with its       *)
(*                 distance from the controller's fighter (px), x, the     *)
(*                 vertical velocity, damage (x1000), stocks and flags     *)
(***************************************************************************)
AIDifficulty == {"easy", "normal", "hard", "expert"}

generateSkillLevel(difficulty) ==
    CASE difficulty = "easy" ->
            [reactionSpeed |-> 30, movementPrecision |-> 40, spacingSkill |-> 30,
             comboAbility |-> 20, dodgeSkill |-> 20, edgeguardSkill |-> 10,
             recoverySkill |-> 40, inputAccuracy |-> 60, adaptationRate |-> 10]
      [] difficulty = "normal" ->
            [reactionSpeed |-> 50, movementPrecision |-> 60, spacingSkill |-> 50,
             comboAbility |-> 40, dodgeSkill |-> 40, edgeguardSkill |-> 30,
             recoverySkill |-> 60, inputAccuracy |-> 80, adaptationRate |-> 30]
      [] difficulty = "hard" ->
            [reactionSpeed |-> 75, movementPrecision |-> 80, spacingSkill |-> 70,
             comboAbility |-> 60, dodgeSkill |-> 65, edgeguardSkill |-> 60,
             recoverySkill |-> 80, inputAccuracy |-> 90, adaptationRate |-> 50]
      [] difficulty = "expert" ->
            [reactionSpeed |-> 95, movementPrecision |-> 95, spacingSkill |-> 90,
             comboAbility |-> 85, dodgeSkill |-> 85, edgeguardSkill |-> 80,
             recoverySkill |-> 95, inputAccuracy |-> 98, adaptationRate |-> 80]

\* char.type.includes(word): the archetype is kept as its words, and none of the
\* words looked for is part of a longer word of any archetype.
includes(type, word) == \E i \in 1..Len(type) : type[i] = word

generatePersonality(id) ==
    LET type == characters[id].type IN
    IF includes(type, "Attacker") \/ includes(type, "Cannon")
    THEN [aggression |-> 75, specialUsage |-> 40]
    ELSE IF includes(type, "Defender") \/ includes(type, "Tank")
    THEN [aggression |-> 35, specialUsage |-> 30]
    ELSE IF includes(type, "Trickster")
    THEN [aggression |-> 50, specialUsage |-> 50]
    ELSE IF includes(type, "Mage") \/ includes(type, "Tactician")
    THEN [aggression |-> 45, specialUsage |-> 55]
    ELSE IF includes(type, "Speedster") \/ includes(type, "Agile")
    THEN [aggression |-> 65, specialUsage |-> 30]
    ELSE [aggression |-> 50, specialUsage |-> 30]

\* The controller as its constructor leaves it, with the given skill levels.
newAIController(id, skill) ==
    [fighter |-> id,
     state |-> [currentAction |-> "idle", targetEnemy |-> "null", actionTimer |-> 0,
                decisionCooldown |-> 0, comboCounter |-> 0, lastMoveDirection |-> "none"],
     skill |-> skill,
     personality |-> generatePersonality(id),
     lastDecisionTime |-> 0,
     playerAttackTimings |-> 0,
     lastEnemyX |-> 0,
     lastEnemyY |-> 0,
     decisionInterval |-> Max(80, 400 - skill.reactionSpeed * 3),
     optimalDistance |-> 60]

\* this.enemies = enemies.filter(e => e !== this.fighter)
setEnemiesState(controller, fighters) ==
    SelectSeq(fighters, LAMBDA e : e.id # controller.fighter)

\* findBestTarget scores an enemy by
\*   -0.5 * distance + 2 * damage + 50 * (3 - stocks), less 500 when invincible;
\* targetScore is 2000 times that.
\* Variant: the invincibility penalty is left out.
targetScore_IgnoresInvincible(enemy) ==
    4 * enemy.damage - 1000 * enemy.distance + 100000 * (3 - enemy.stocks)

targetScore(enemy) ==
    4 * enemy.damage - 1000 * enemy.distance + 100000 * (3 - enemy.stocks)
        - (IF enemy.isInvincible THEN 1000000 ELSE 0)

\* The loop of findBestTarget from position i on, `best` being the position of the
\* best enemy so far (0 when there is none yet).
RECURSIVE bestTargetFrom(_, _, _)
bestTargetFrom(enemies, i, best) ==
    IF i > Len(enemies) THEN best
    ELSE IF enemies[i].stocks <= 0 THEN bestTargetFrom(enemies, i + 1, best)
    ELSE IF best = 0 \/ targetScore(enemies[i]) > targetScore(enemies[best])
    THEN bestTargetFrom(enemies, i + 1, i)
    ELSE bestTargetFrom(enemies, i + 1, best)

\* The position in the enemy list of the chosen target, 0 for null.
findBestTarget(enemies) == bestTargetFrom(enemies, 1, 0)

\* Variant: an enemy exactly at the proximity limit is out of reach.
shouldDodge_LimitExcluded(skill, target, draws) ==
    IF ~target.isAttacking THEN {FALSE}
    ELSE IF target.distance >= 120 THEN {FALSE}
    ELSE {draw < skill.dodgeSkill * 100 : draw \in draws}

\* The results shouldDodge can return; a draw is made only on the last line.
shouldDodge(skill, target, draws) ==
    IF ~target.isAttacking THEN {FALSE}
    ELSE IF target.distance > 120 THEN {FALSE}
    ELSE {draw < skill.dodgeSkill * 100 : draw \in draws}

shouldEdgeguard(self, target) ==
    LET isOffstage == target.x < 150 \/ target.x > 1130
        isFalling == target.velocityY > 100
    IN isOffstage /\ isFalling /\ self.isGrounded

\* The results shouldUseSpecial can return.
shouldUseSpecial(controller, self, target, draws) ==
    LET special == characters[controller.fighter].special_move
        usage == controller.personality.specialUsage
    IN  IF self.specialCooldown > 0 THEN {FALSE}
        ELSE IF target.distance > special.range THEN {FALSE}
        ELSE {IF target.damage > 80000 /\ 10 * draw < usage * 1500 THEN TRUE
              ELSE IF special.type = "utility" THEN 10 * draw < usage * 800
              ELSE 10 * draw < usage * 300 : draw \in draws}

withAction(controller, action) == [controller EXCEPT !.state.currentAction = action]

\* The close, medium and far bands of the decision tree, for the first draw `roll`.
distanceBands(controller, self, target, roll, draws) ==
    LET skill == controller.skill
        aggression == controller.personality.aggression
        optimalDistance == 40 + ((100 - skill.spacingSkill) * 40) \div 100
        spaced == [controller EXCEPT !.optimalDistance = optimalDistance]
        distance == target.distance
        gap == IF distance > optimalDistance THEN distance - optimalDistance
               ELSE optimalDistance - distance
    IN  IF distance < optimalDistance + 30
        THEN IF roll < aggression * 100
             THEN {[withAction(spaced, "attack") EXCEPT !.state.comboCounter = n] :
                     n \in UNION {IF comboDraw < skill.comboAbility * 100
                                  THEN {(3 * hitsDraw) \div 10000 + 2 : hitsDraw \in draws}
                                  ELSE {1} : comboDraw \in draws}}
             ELSE IF self.damage > 80000 /\ roll < 5000
             THEN {withAction(spaced, "retreat")}
             ELSE {withAction(spaced, "defend")}
        ELSE IF distance < 200
        THEN IF skill.spacingSkill > 50 /\ gap < 30
             THEN {withAction(spaced, "idle")}
             ELSE IF 10 * roll < aggression * 800
             THEN {withAction(spaced, "chase")}
             ELSE {withAction(spaced, "idle")}
        ELSE {withAction(spaced, "chase")}

\* Variant: a draw equal to the dodge skill counts as a success.
adapt_InclusiveRoll(controller, target, draws) ==
    IF controller.skill.adaptationRate > 40 /\ target.isAttacking
    THEN {IF draw <= controller.skill.dodgeSkill * 100
          THEN withAction(controller, "defend") ELSE controller : draw \in draws}
    ELSE {controller}

\* Variant: the adaptation does not ask whether the target is attacking.
adapt_IgnoresAttack(controller, target, draws) ==
    IF controller.skill.adaptationRate > 40
    THEN {IF draw < controller.skill.dodgeSkill * 100
          THEN withAction(controller, "defend") ELSE controller : draw \in draws}
    ELSE {controller}

\* "Adapt to player patterns": the last statement of makeDecision.
adapt(controller, target, draws) ==
    IF controller.skill.adaptationRate > 40 /\ target.isAttacking
    THEN {IF draw < controller.skill.dodgeSkill * 100
          THEN withAction(controller, "defend") ELSE controller : draw \in draws}
    ELSE {controller}

\* The controllers makeDecision can leave, `roll` being its first draw and `draws`
\* the values every further Math.random() call may return.
makeDecisionOutcomes(controller, v, roll, draws) ==
    LET best == findBestTarget(v.enemies) IN
    IF best = 0
    THEN {[controller EXCEPT !.state.targetEnemy = "null", !.state.currentAction = "idle"]}
    ELSE
    LET target == v.enemies[best]
        chosen == [controller EXCEPT !.state.targetEnemy = target.id]
        dodge == shouldDodge(controller.skill, target, draws)
        edgeguard == controller.skill.edgeguardSkill > 30 /\ shouldEdgeguard(v.self, target)
        special == shouldUseSpecial(controller, v.self, target, draws)
    IN  (IF TRUE \in dodge THEN {withAction(chosen, "defend")} ELSE {})
        \cup
        (IF FALSE \in dodge
         THEN IF edgeguard THEN {withAction(chosen, "edgeguard")}
              ELSE (IF TRUE \in special THEN {withAction(chosen, "special")} ELSE {})
                   \cup
                   (IF FALSE \in special
                    THEN UNION {adapt(c, target, draws) :
                                  c \in distanceBands(chosen, v.self, target, roll, draws)}
                    ELSE {})
         ELSE {})

\* AIController.makeDecision()
makeDecision(firstDraw, draws) ==
    /\ ai' \in makeDecisionOutcomes(ai, view, firstDraw, draws)
    /\ lastRoll' = firstDraw
    /\ UNCHANGED view

(***************************************************************************)
(* A controller deciding: every difficulty and archetype, against one      *)
(* enemy or two                                                            *)
(***************************************************************************)
\* The skill levels of the four difficulties, and the same with the dodge skill
\* set to none and to perfect.
ScenarioDodgeSkills == {0, 100}
AISkills ==
    {generateSkillLevel(d) : d \in AIDifficulty}
        \cup {[generateSkillLevel(d) EXCEPT !.dodgeSkill = s] :
                d \in {"easy", "hard"}, s \in ScenarioDodgeSkills}
\* one character of each personality
AICharacters == {"c_lang", "rust", "javascript", "python", "go", "java"}
Distances == {30, 85, 120, 121, 250}
SelfViews ==
    [damage : {0, 90000}, isGrounded : BOOLEAN, specialCooldown : {0, 5000}]
\* an enemy alone: on the stage or falling beside it
LoneEnemies ==
    {[id |-> "lua", distance |-> d, x |-> p.x, velocityY |-> p.velocityY, damage |-> dmg,
      stocks |-> 2, isInvincible |-> FALSE, isAttacking |-> a] :
        d \in Distances, p \in {[x |-> 640, velocityY |-> 0], [x |-> 100, velocityY |-> 200]},
        dmg \in {0, 90000}, a \in BOOLEAN}
\* enemies met in pairs: one knocked out, one invincible, one far away, one close
RivalEnemies ==
    {[id |-> "dart", distance |-> 30, x |-> 640, velocityY |-> 0, damage |-> 0,
      stocks |-> 0, isInvincible |-> FALSE, isAttacking |-> TRUE],
     [id |-> "kotlin", distance |-> 30, x |-> 640, velocityY |-> 0, damage |-> 90000,
      stocks |-> 1, isInvincible |-> TRUE, isAttacking |-> TRUE],
     [id |-> "swift", distance |-> 250, x |-> 640, velocityY |-> 0, damage |-> 0,
      stocks |-> 3, isInvincible |-> FALSE, isAttacking |-> FALSE],
     [id |-> "ruby", distance |-> 120, x |-> 640, velocityY |-> 0, damage |-> 40000,
      stocks |-> 3, isInvincible |-> FALSE, isAttacking |-> TRUE]}
EnemyLists ==
    {<<>>} \cup {<<e>> : e \in LoneEnemies}
        \cup {<<p[1], p[2]>> : p \in {q \in RivalEnemies \X RivalEnemies : q[1] # q[2]}}

InitDecision ==
    /\ now = 0
    /\ calls = 0
    /\ gameState = "playing"
    /\ fighterStates = <<>>
    /\ ret = "void"
    /\ ScoreIdle
    /\ BattleIdle
    /\ ai \in {newAIController(id, skill) : id \in AICharacters, skill \in AISkills}
    /\ view \in [self : SelfViews, enemies : EnemyLists]
    /\ lastRoll = -1

NextDecision ==
    \/ \E firstDraw \in RandomDraws :
            /\ makeDecision(firstDraw, RandomDraws)
            /\ UNCHANGED <<calls, statusVars, scoreVars, battleVars, lastCall, gameState>>

SpecDecision == InitDecision /\ [][NextDecision]_vars

(***************************************************************************)
(* Target selection: the scene hands the controller the list of all        *)
(* fighters, its own among them, and the controller decides                *)
(***************************************************************************)
TargetControllers == {"rust", "python"}
\* The fighters of a battle as a controller sees them: its own, two at equal score,
\* one knocked out, one invincible and damaged.
TargetPool(own) ==
    {[id |-> own, distance |-> 0, x |-> 640, velocityY |-> 0, damage |-> 0,
      stocks |-> 3, isInvincible |-> FALSE, isAttacking |-> FALSE],
     [id |-> "lua", distance |-> 100, x |-> 640, velocityY |-> 0, damage |-> 0,
      stocks |-> 3, isInvincible |-> FALSE, isAttacking |-> FALSE],
     [id |-> "ruby", distance |-> 200, x |-> 640, velocityY |-> 0, damage |-> 25000,
      stocks |-> 3, isInvincible |-> FALSE, isAttacking |-> TRUE],
     [id |-> "dart", distance |-> 30, x |-> 640, velocityY |-> 0, damage |-> 0,
      stocks |-> 0, isInvincible |-> FALSE, isAttacking |-> TRUE],
     [id |-> "kotlin", distance |-> 30, x |-> 640, velocityY |-> 0, damage |-> 90000,
      stocks |-> 1, isInvincible |-> TRUE, isAttacking |-> TRUE]}
MaxFighters == 3
\* Lists of up to MaxFighters different fighters of the pool, in every order.
FighterLists(own) ==
    UNION {{s \in [1..n -> TargetPool(own)] : \A i, j \in 1..n : i # j => s[i] # s[j]} :
                n \in 0..MaxFighters}

InitTarget ==
    /\ now = 0
    /\ calls = 0
    /\ gameState = "playing"
    /\ fighterStates = <<>>
    /\ ret = "void"
    /\ ScoreIdle
    /\ BattleIdle
    /\ ai \in {newAIController(id, generateSkillLevel("normal")) : id \in TargetControllers}
    /\ view = [self |-> [damage |-> 0, isGrounded |-> TRUE, specialCooldown |-> 0],
               enemies |-> <<>>, fighters |-> <<>>]
    /\ lastRoll = -1

\* ai.setEnemies(this.allFighters)
setEnemies(fighters) ==
    /\ view' = [view EXCEPT !.enemies = setEnemiesState(ai, fighters), !.fighters = fighters]
    /\ UNCHANGED <<ai, lastRoll>>

TargetCall(A, name) ==
    A /\ lastCall' = name /\ UNCHANGED <<calls, statusVars, scoreVars, battleVars, gameState>>

NextTarget ==
    \/ \E fighters \in FighterLists(ai.fighter) : TargetCall(setEnemies(fighters), "setEnemies")
    \/ \E firstDraw \in RandomDraws :
            TargetCall(makeDecision(firstDraw, RandomDraws), "makeDecision")

SpecTarget == InitTarget /\ [][NextTarget]_vars

(***************************************************************************)
(* AIController.update: what one frame does to the controller, and the     *)
(* calls it makes on its fighter (cmds, in the order made).  Ratings are    *)
(* hundredths, draws ten-thousandths, positions pixels, velocityY pixels    *)
(* per second and velocityX hundredths of a pixel per second.               *)
(***************************************************************************)
Abs(n) == IF n < 0 THEN -n ELSE n

moved(controller, direction) == [controller EXCEPT !.state.lastMoveDirection = direction]
toIdle(controller) ==
    [controller EXCEPT !.state.currentAction = "idle", !.state.actionTimer = 0]

\* The enemies the controller's target reference points at: one, or none for null.
targetOf(controller, v) ==
    {v.enemies[i] : i \in {j \in 1..Len(v.enemies) :
                              v.enemies[j].id = controller.state.targetEnemy}}

\* playerAttackTimings is modelled by its length.
trackEnemyMovement(controller, target) ==
    [controller EXCEPT
        !.playerAttackTimings =
            IF target.isAttacking /\ controller.skill.adaptationRate > 20
            THEN Min(10, @ + 1) ELSE @,
        !.lastEnemyX = target.x,
        !.lastEnemyY = target.y]

\* Directional influence: the knockback velocity damped by 0.9 + recoverySkill * 0.08.
handleHitstun(controller, self) ==
    IF controller.skill.recoverySkill > 70
            /\ \/ self.velocityX > 0 /\ self.x > 640
               \/ self.velocityX < 0 /\ self.x < 640
    THEN [self EXCEPT
            !.velocityX = (@ * (9000 + 8 * controller.skill.recoverySkill)) \div 10000]
    ELSE self

\* Variant: the fall threshold is left out.
needsRecovery_IgnoresFall(self) == self.x < 50 \/ self.x > 1230

needsRecovery(self) == self.x < 50 \/ self.x > 1230 \/ self.y > 620

isNearEdge(self) ==
    IF self.x < 100 THEN "left" ELSE IF self.x > 1180 THEN "right" ELSE "null"

handleRecovery(controller, self, draws) ==
    LET skill == controller.skill.recoverySkill
        toCentre == IF 640 - self.x > 0 THEN <<"moveRight">> ELSE <<"moveLeft">>
        moves == IF skill > 60 THEN {toCentre}
                 ELSE {IF draw < skill * 100 THEN toCentre ELSE <<>> : draw \in draws}
        jumps == IF self.jumpsRemaining > 0
                 THEN IF skill > 70 /\ self.y < 500 /\ self.jumpsRemaining > 1
                      THEN IF self.y > 400 THEN <<"jump">> ELSE <<>>
                      ELSE <<"jump">>
                 ELSE <<>>
        specials == IF characters[controller.fighter].special_move.type = "utility"
                            /\ self.specialCooldown <= 0
                    THEN {IF draw < skill * 100 THEN <<"useSpecial">> ELSE <<>> : draw \in draws}
                    ELSE {<<>>}
    IN  {[c |-> withAction(controller, "recover"), cmds |-> m \o jumps \o s] :
            m \in moves, s \in specials}

executeErrorAction(controller, draws) ==
    {[c |-> controller,
      cmds |-> IF errorRoll < 3000 THEN <<>>
               ELSE IF errorRoll < 5000
               THEN IF controller.state.lastMoveDirection = "right"
                    THEN <<"moveLeft">> ELSE <<"moveRight">>
               ELSE IF draw < 2000 THEN <<"attack">> ELSE <<>>] :
        errorRoll \in draws, draw \in draws}

maintainSpacing(controller, self, target, draws) ==
    LET dx == target.x - self.x
        distance == Abs(dx)
        nearLeftEdge == self.x < 150
        nearRightEdge == self.x > 1130
    IN  IF distance < controller.optimalDistance - 10
        THEN IF dx > 0 /\ ~nearLeftEdge
             THEN {[c |-> moved(controller, "left"), cmds |-> <<"moveLeft">>]}
             ELSE IF dx < 0 /\ ~nearRightEdge
             THEN {[c |-> moved(controller, "right"), cmds |-> <<"moveRight">>]}
             ELSE {[c |-> controller, cmds |-> IF draw < 3000 THEN <<"jump">> ELSE <<>>] :
                      draw \in draws}
        ELSE IF distance > controller.optimalDistance + 20
        THEN IF dx > 0 /\ ~nearRightEdge
             THEN {[c |-> moved(controller, "right"), cmds |-> <<"moveRight">>]}
             ELSE IF dx < 0 /\ ~nearLeftEdge
             THEN {[c |-> moved(controller, "left"), cmds |-> <<"moveLeft">>]}
             ELSE {[c |-> controller, cmds |-> <<>>]}
        ELSE {[c |-> controller, cmds |-> <<>>]}

\* adjusted is a million times adjustedDx, predicted a thousand times predictedX.
chaseTarget(controller, self, target, draws) ==
    LET skill == controller.skill
        dx == target.x - self.x
        dy == target.y - self.y
        nearLeftEdge == self.x < 150
        nearRightEdge == self.x > 1130
        horizontal(adjusted) ==
            IF Abs(adjusted) > 20000000
            THEN IF adjusted > 0 /\ ~nearRightEdge THEN "right"
                 ELSE IF adjusted < 0 /\ ~nearLeftEdge THEN "left"
                 ELSE IF nearLeftEdge /\ adjusted < -20000000 THEN "right"
                 ELSE IF nearRightEdge /\ adjusted > 20000000 THEN "left"
                 ELSE "none"
            ELSE "none"
        reaches == IF dy < -50
                   THEN {IF draw < 500 + skill.movementPrecision * 10
                         THEN <<"jump">> ELSE <<>> : draw \in draws}
                   ELSE {<<>>}
        predicted == 1000 * target.x + 3 * target.velocityX
        prediction ==
            IF skill.movementPrecision > 60 /\ ~target.isGrounded
                    /\ predicted > 150000 /\ predicted < 1130000
                    /\ Abs(predicted - 1000 * self.x) > 50000
            THEN IF predicted > 1000 * self.x /\ ~nearRightEdge THEN <<"moveRight">>
                 ELSE IF predicted < 1000 * self.x /\ ~nearLeftEdge THEN <<"moveLeft">>
                 ELSE <<>>
            ELSE <<>>
        \* an accepted jump leaves the fighter rising
        falling(reach) ==
            /\ ~self.isGrounded
            /\ self.velocityY > 100
            /\ ~(reach # <<>> /\ self.jumpsRemaining > 0)
        recoveries(reach) ==
            IF falling(reach)
            THEN {IF draw < skill.recoverySkill * 30 THEN <<"jump">> ELSE <<>> : draw \in draws}
            ELSE {<<>>}
    IN  IF isNearEdge(self) = "left" /\ self.isGrounded
        THEN {[c |-> moved(controller, "right"), cmds |-> <<"moveRight">>]}
        ELSE IF isNearEdge(self) = "right" /\ self.isGrounded
        THEN {[c |-> moved(controller, "left"), cmds |-> <<"moveLeft">>]}
        ELSE UNION {
               LET direction ==
                       horizontal(1000000 * dx
                                    + (100 - skill.movementPrecision) * 50 * (draw - 5000))
               IN  UNION {
                     {[c |-> IF direction = "none" THEN controller
                             ELSE moved(controller, direction),
                       cmds |-> (IF direction = "right" THEN <<"moveRight">>
                                 ELSE IF direction = "left" THEN <<"moveLeft">> ELSE <<>>)
                                \o reach \o prediction \o recovery] :
                        recovery \in recoveries(reach)} :
                     reach \in reaches} :
               draw \in draws}

attackTarget(controller, self, target, draws) ==
    LET skill == controller.skill
        dx == target.x - self.x
        distance == Abs(dx)
        facing == IF dx > 0 /\ ~self.facingRight THEN "right"
                  ELSE IF dx < 0 /\ self.facingRight THEN "left" ELSE "none"
        faced == IF facing = "none" THEN controller ELSE moved(controller, facing)
        turn == IF facing = "right" THEN <<"moveRight">>
                ELSE IF facing = "left" THEN <<"moveLeft">> ELSE <<>>
        struck == [faced EXCEPT !.state.comboCounter = @ - 1]
    IN  IF 100 * distance < 4000 + skill.spacingSkill * 20 + 2000
        THEN UNION {
               IF draw < 3000 + skill.comboAbility * 50
               THEN {[c |-> IF struck.state.comboCounter <= 0
                                    \/ comboDraw > skill.comboAbility * 100
                            THEN toIdle(struck) ELSE struck,
                      cmds |-> turn \o <<"attack">>] : comboDraw \in draws}
               ELSE {[c |-> faced, cmds |-> turn]} :
               draw \in draws}
        ELSE {IF draw < (IF skill.movementPrecision > 70 THEN 5000 ELSE 10000)
              THEN IF dx > 0
                   THEN [c |-> moved(faced, "right"), cmds |-> turn \o <<"moveRight">>]
                   ELSE [c |-> moved(faced, "left"), cmds |-> turn \o <<"moveLeft">>]
              ELSE [c |-> faced, cmds |-> turn] :
              draw \in draws}

performDefense(controller, self, targets, draws) ==
    IF targets = {} THEN {[c |-> controller, cmds |-> <<>>]}
    ELSE
    LET target == CHOOSE t \in targets : TRUE
        skill == controller.skill
        dx == target.x - self.x
        timedOut(c) ==
            IF c.state.actionTimer > 300 + (100 - skill.reactionSpeed) * 4
            THEN toIdle(c) ELSE c
    IN  IF target.isAttacking /\ Abs(dx) < 100
        THEN LET away == IF dx > 0 THEN "left" ELSE "right"
                 step == IF dx > 0 THEN <<"moveLeft">> ELSE <<"moveRight">>
             IN  {[c |-> timedOut(moved(controller, away)),
                   cmds |-> step \o (IF draw < skill.dodgeSkill * 50
                                     THEN <<"jump">> ELSE <<>>)] : draw \in draws}
        ELSE IF ~target.isAttacking /\ skill.spacingSkill > 50
        THEN {[c |-> toIdle(controller), cmds |-> <<>>]}
        ELSE {[c |-> timedOut(controller), cmds |-> <<>>]}

retreatFrom(controller, self, target, draws) ==
    LET dx == target.x - self.x
        away == IF dx > 0 /\ self.x >= 150 THEN <<"moveLeft">>
                ELSE IF dx < 0 /\ self.x <= 1130 THEN <<"moveRight">>
                ELSE <<"jump", IF self.x < 640 THEN "moveRight" ELSE "moveLeft">>
        after == IF target.distance > 200 THEN withAction(controller, "idle") ELSE controller
    IN  {[c |-> after, cmds |-> away \o (IF draw < 500 THEN <<"jump">> ELSE <<>>)] :
            draw \in draws}

performSpecial(controller, self, target) ==
    LET dx == target.x - self.x
        turn == IF dx > 0 /\ ~self.facingRight THEN <<"moveRight">>
                ELSE IF dx < 0 /\ self.facingRight THEN <<"moveLeft">> ELSE <<>>
    IN  {[c |-> withAction(controller, "idle"), cmds |-> turn \o <<"useSpecial">>]}

performEdgeguard(controller, self, target) ==
    LET edgeX == IF target.x < 640 THEN 150 ELSE 1130
        dx == edgeX - self.x
        cmds == IF Abs(dx) > 30
                THEN IF dx > 0 THEN <<"moveRight">> ELSE <<"moveLeft">>
                ELSE IF target.distance < 150 THEN <<"attack">> ELSE <<>>
    IN  {[c |-> IF controller.state.actionTimer > 2000 THEN toIdle(controller)
                ELSE controller,
          cmds |-> cmds]}

executeAction(controller, v, draws) ==
    LET targets == targetOf(controller, v)
        action == controller.state.currentAction
        nothing == {[c |-> controller, cmds |-> <<>>]}
        onTarget(behaviour(_)) ==
            IF targets = {} THEN nothing ELSE behaviour(CHOOSE t \in targets : TRUE)
    IN  IF action = "idle"
        THEN IF controller.skill.spacingSkill > 50 /\ targets # {}
             THEN maintainSpacing(controller, v.self, CHOOSE t \in targets : TRUE, draws)
             ELSE {[c |-> controller,
                    cmds |-> IF draw < 200
                             THEN IF side < 5000 THEN <<"moveLeft">> ELSE <<"moveRight">>
                             ELSE <<>>] : draw \in draws, side \in draws}
        ELSE IF action = "chase"
        THEN onTarget(LAMBDA t : chaseTarget(controller, v.self, t, draws))
        ELSE IF action = "attack"
        THEN onTarget(LAMBDA t : attackTarget(controller, v.self, t, draws))
        ELSE IF action = "defend"
        THEN performDefense(controller, v.self, targets, draws)
        ELSE IF action = "retreat"
        THEN onTarget(LAMBDA t : retreatFrom(controller, v.self, t, draws))
        ELSE IF action = "special"
        THEN onTarget(LAMBDA t : performSpecial(controller, v.self, t))
        ELSE IF action = "recover"
        THEN handleRecovery(controller, v.self, draws)
        ELSE IF action = "edgeguard"
        THEN onTarget(LAMBDA t : performEdgeguard(controller, v.self, t))
        ELSE nothing

\* What update(time, delta) can leave: the controller, its fighter's view and the
\* calls made on the fighter.
\* Variant: a draw equal to the input accuracy counts as a success.
accurate_Inclusive(skill, draw) == draw <= skill.inputAccuracy * 100

\* Math.random() < this.skill.inputAccuracy
accurate(skill, draw) == draw < skill.inputAccuracy * 100

updateOutcomes(controller, v, time, delta, draws) ==
    LET timed == [controller EXCEPT !.state.actionTimer = @ + delta,
                                    !.state.decisionCooldown = @ - delta]
        targets == targetOf(controller, v)
        tracked == IF targets = {} THEN timed
                   ELSE trackEnemyMovement(timed, CHOOSE t \in targets : TRUE)
    IN  IF v.self.isHitstun
        THEN {[c |-> tracked, self |-> handleHitstun(tracked, v.self), cmds |-> <<>>]}
        ELSE IF needsRecovery(v.self)
        THEN {[c |-> o.c, self |-> v.self, cmds |-> o.cmds] :
                o \in handleRecovery(tracked, v.self, draws)}
        ELSE LET decided ==
                     IF time - tracked.lastDecisionTime > tracked.decisionInterval
                     THEN {[d EXCEPT !.lastDecisionTime = time] :
                             d \in UNION {makeDecisionOutcomes(tracked, v, roll, draws) :
                                            roll \in draws}}
                     ELSE {tracked}
             IN  UNION {
                   UNION {
                     {[c |-> o.c, self |-> v.self, cmds |-> o.cmds] :
                        o \in IF accurate(d.skill, draw)
                              THEN executeAction(d, v, draws)
                              ELSE executeErrorAction(d, draws)} :
                     draw \in draws} :
                   d \in decided}

(***************************************************************************)
(* A controller driven frame by frame while the scene moves the fighters   *)
(***************************************************************************)
MaxUpdates == 3
UpdateDeltas == {100, 1100}
UpdateControllers ==
    {newAIController("rust", generateSkillLevel("easy")),
     newAIController("python", generateSkillLevel("expert"))}
\* The controlled fighter on the stage, knocked off it to either side, fallen below
\* it (in hitstun or not), fallen below it and standing near its edge.
UpdateSelves ==
    {[x |-> p[1], y |-> p[2], isGrounded |-> p[3], jumpsRemaining |-> p[4],
      velocityX |-> p[5], velocityY |-> p[6], isHitstun |-> p[7], facingRight |-> TRUE,
      specialCooldown |-> 0, damage |-> 0] :
        p \in {<<640, 450, TRUE, 2, 0, 0, FALSE>>,
               <<40, 450, FALSE, 1, -30000, 200, FALSE>>,
               <<40, 450, FALSE, 1, -30000, 200, TRUE>>,
               <<1240, 450, FALSE, 2, 30000, 200, FALSE>>,
               <<700, 630, FALSE, 0, 0, 300, FALSE>>,
               <<120, 450, TRUE, 2, 0, 0, FALSE>>}}
\* The opponent standing, swinging, and falling beside the stage.
UpdateEnemies ==
    {[id |-> "lua", x |-> p[1], y |-> p[2], isGrounded |-> p[3], velocityX |-> p[4],
      velocityY |-> p[5], isAttacking |-> p[6], damage |-> 0, stocks |-> 3,
      isInvincible |-> FALSE, distance |-> 0] :
        p \in {<<700, 450, TRUE, 0, 0, FALSE>>, <<700, 450, TRUE, 0, 0, TRUE>>,
               <<100, 450, FALSE, -10000, 200, FALSE>>}}
squaredDistance(self, enemy) ==
    (enemy.x - self.x) * (enemy.x - self.x) + (enemy.y - self.y) * (enemy.y - self.y)
\* Phaser.Math.Distance.Between, for the placings at a whole number of pixels.
MaxDistance == 1500
wholeDistances(self, enemy) ==
    {d \in 0..MaxDistance : d * d = squaredDistance(self, enemy)}
UpdateViews ==
    {[self |-> s, enemies |-> <<>>, cmds |-> <<>>] : s \in UpdateSelves}
    \cup {[self |-> q[1],
           enemies |-> <<[q[2] EXCEPT !.distance =
                                CHOOSE d \in wholeDistances(q[1], q[2]) : TRUE]>>,
           cmds |-> <<>>] :
            q \in {r \in UpdateSelves \X UpdateEnemies : wholeDistances(r[1], r[2]) # {}}}

InitUpdate ==
    /\ now = 0
    /\ calls = 0
    /\ gameState = "playing"
    /\ fighterStates = <<>>
    /\ ret = "void"
    /\ ScoreIdle
    /\ BattleIdle
    /\ ai \in UpdateControllers
    /\ view \in UpdateViews
    /\ lastRoll = -1

\* ai.update(time, delta), time being the scene's clock at this frame
updateAI(delta, draws) ==
    /\ calls < MaxUpdates
    /\ calls' = calls + 1
    /\ now' = now + delta
    /\ \E o \in updateOutcomes(ai, view, now + delta, delta, draws) :
            /\ ai' = o.c
            /\ view' = [view EXCEPT !.self = o.self, !.cmds = o.cmds]
    /\ UNCHANGED <<lastRoll, fighterStates, ret, scoreVars, battleVars>>

\* The physics of the frame: the fighters are where the scene has put them.
moveFighters ==
    /\ view' \in UpdateViews
    /\ view' # view
    /\ UNCHANGED <<ai, lastRoll, calls, statusVars, scoreVars, battleVars>>

NextUpdate ==
    \/ \E delta \in UpdateDeltas :
            updateAI(delta, ExtremeDraws) /\ lastCall' = "update" /\ UNCHANGED gameState
    \/ moveFighters /\ lastCall' = "moveFighters" /\ UNCHANGED gameState

SpecUpdate == InitUpdate /\ [][NextUpdate]_vars

(***************************************************************************)
(* Both systems called for fighters they know and for one they were never  *)
(* given                                                                   *)
(***************************************************************************)
MaxStrangerOps == 3
KnownFighters == {"rust", "lua"}
Strangers == {"dart"}
StatusCallers == {"rust"} \cup Strangers
StrangerAmounts == {40000}

InitStrangers ==
    /\ now = 0
    /\ calls = 0
    /\ gameState = "playing"
    /\ \E n \in PriorAttacks("rust") :
            fighterStates =
                [f \in {"rust"} |-> [registerFighter(f) EXCEPT !.stackOverflow.attackCounter = n]]
    /\ ret = "void"
    /\ wallNow = 0
    /\ scores = registerAll(emptyScoreSystem, KnownFighters).scores
    /\ damageHistory = registerAll(emptyScoreSystem, KnownFighters).damageHistory
    /\ koStreak = [f \in KnownFighters \cup Strangers |-> 0]
    /\ BattleIdle
    /\ AIIdle

\* A call of the status interface, counted and named.
mutation(A, name) ==
    /\ calls < MaxStrangerOps /\ A /\ calls' = calls + 1 /\ lastCall' = name /\ UNCHANGED gameState
    /\ UNCHANGED <<scoreVars, battleVars, aiVars>>
\* A call of the scoring interface, counted and named.
scoring(A, name) ==
    /\ calls < MaxStrangerOps /\ A /\ calls' = calls + 1 /\ lastCall' = name /\ UNCHANGED gameState
    /\ UNCHANGED <<statusVars, battleVars, aiVars>>
\* A call that only returns a value about fighter f.
query(name, f, value) ==
    /\ lastCall' = name
    /\ UNCHANGED gameState
    /\ ret' = [of |-> f, value |-> value]
    /\ UNCHANGED <<calls, now, fighterStates, scoreVars, battleVars, aiVars>>

NextStrangers ==
    \/ \E f \in StatusCallers : mutation(onAttack(f), "onAttack")
    \/ \E f \in StatusCallers :
            mutation(WithinBugDuration(f) /\ onTakeDamage(f, ExtremeDraws), "onTakeDamage")
    \/ \E f \in StatusCallers, delta \in FrameDeltas : mutation(update(f, delta), "update")
    \/ \E f \in StatusCallers : mutation(clearEffects(f), "clearEffects")
    \/ \E f \in StatusCallers : query("isStunned", f, isStunned(f))
    \/ \E f \in StatusCallers : query("isBugged", f, isBugged(f))
    \/ \E f \in StatusCallers : query("getBugEffects", f, getBugEffects(f))
    \/ \E f \in StatusCallers : query("getStackOverflowProgress", f, getStackOverflowProgress(f))
    \/ \E a \in KnownFighters \cup Strangers, v \in KnownFighters, amount \in StrangerAmounts :
            a # v /\ scoring(recordDamage(a, v, amount), "recordDamage")
    \/ \E v \in KnownFighters, k \in KnownFighters \cup Strangers \cup {"null"} :
            k # v /\ scoring(recordKO(v, k), "recordKO")
    \/ \E f \in KnownFighters \cup Strangers : query("getTotalScore", f, getTotalScore(f))
    \/ \E f \in KnownFighters \cup Strangers : query("getPushCount", f, getPushCount(f))
    \/ \E f \in KnownFighters \cup Strangers :
            query("getScoreBreakdown", f, getScoreBreakdown(f))

SpecStrangers == InitStrangers /\ [][NextStrangers]_vars

(***************************************************************************)
(* A battle that the player pauses and resumes.  The scene's clock, which  *)
(* runs the delayed calls, keeps running while the game is paused: only    *)
(* the physics world is paused and BattleScene.update returns at once.     *)
(***************************************************************************)
MaxPauseOps == 5
PauseDeltas == {250, 1500}

\* if (this.gameState !== GameState.PLAYING) return;
isPlaying == gameState = "playing"

togglePause ==
    /\ gameState # "countdown"
    /\ gameState' = IF gameState = "paused" THEN "playing"
                    ELSE IF isPlaying THEN "paused" ELSE gameState
    /\ lastCall' = "togglePause"
    /\ UNCHANGED <<calls, statusVars, scoreVars, battleVars, aiVars>>

\* A call on the fighter or a step of the clock, counted.
PauseCall(A) == calls < MaxPauseOps /\ A /\ calls' = calls + 1 /\ UNCHANGED aiVars

NextPause ==
    \/ togglePause
    \/ \E type \in AttackTypes : isPlaying /\ PauseCall(attack(FighterUnderTest, type))
    \/ \E d \in PauseDeltas, touchingDown \in BOOLEAN :
            isPlaying /\ PauseCall(updateFighter(FighterUnderTest, d, touchingDown))
    \/ \E h \in MoveHits :
            /\ isPlaying
            /\ PauseCall(Named(takeDamage(FighterUnderTest, h.amount, h.knockbackX,
                                          h.knockbackY), "takeDamage"))
    \/ \E d \in InvincibilityDurations :
            /\ isPlaying
            /\ PauseCall(Named(activateInvincibility(FighterUnderTest, d),
                               "activateInvincibility"))
    \/ \E d \in PauseDeltas : PauseCall(Named(clockUpdate(d), "none"))

SpecPause == InitMoves /\ [][NextPause]_vars

(***************************************************************************)
(* Knock-outs and respawns in the playing state.  Phaser runs the scene's  *)
(* clock and BattleScene.update in every frame, so the frame of each       *)
(* fighter and the clock are taken again and again; the physics may carry  *)
(* a fighter out of the stage until MaxRespawnTime.                        *)
(***************************************************************************)
MaxRespawnTime == 2000
RespawnDeltas == {800, 1200}
ClockDeltas == {1500}
OffStagePoints == {<<640, 850>>}

deathBoundary == [top |-> -200, bottom |-> 800, left |-> -100, right |-> 1380]

\* BattleScene.checkDeathBoundary
checkDeathBoundary(fighter) ==
    LET p == allFighters[fighter].position
    IN  IF \/ p[1] < deathBoundary.left
           \/ p[1] > deathBoundary.right
           \/ p[2] < deathBoundary.top
           \/ p[2] > deathBoundary.bottom
        THEN handleKO(fighter)
        ELSE /\ hits' = {}
             /\ UNCHANGED <<allFighters, delayedCalls, respawnTimers, lastAttackers, now,
                            scoreVars>>

\* if (fighter.body.enable && fighter.visible) this.checkDeathBoundary(fighter),
\* reached only for a fighter that is not waiting to respawn.
checksBoundary(f) ==
    /\ f \notin DOMAIN respawnTimers
    /\ allFighters[f].bodyEnable
    /\ allFighters[f].visible

\* The physics step carries an enabled body to the point p.
carried(f, p) ==
    /\ allFighters[f].bodyEnable
    /\ allFighters' = [allFighters EXCEPT ![f].position = p]
    /\ hits' = {}
    /\ UNCHANGED <<delayedCalls, respawnTimers, lastAttackers, now, scoreVars>>

RespawnCall(A) == isPlaying /\ A /\ UNCHANGED <<calls, aiVars>>

fighterFrame(f) == \E d \in RespawnDeltas : RespawnCall(updateFighterFrame(f, d, TRUE))

clockFrame ==
    \E d \in ClockDeltas :
        /\ now < MaxRespawnTime \/ delayedCalls # {}
        /\ RespawnCall(Named(clockUpdate(d), "none"))

NextRespawn ==
    \/ \E f \in FighterIds, p \in OffStagePoints :
            now < MaxRespawnTime /\ RespawnCall(Named(carried(f, p), "none"))
    \/ \E f \in FighterIds :
            checksBoundary(f) /\ RespawnCall(Named(checkDeathBoundary(f), "checkDeathBoundary"))
    \/ \E f \in FighterIds : fighterFrame(f)
    \/ clockFrame

SpecRespawn ==
    /\ InitBattle
    /\ [][NextRespawn]_vars
    /\ \A f \in FighterIds : WF_vars(fighterFrame(f))
    /\ WF_vars(clockFrame)

(***************************************************************************)
(* The player's special key: frames in which the key is pressed, hits the  *)
(* player takes, fighter frames and the clock.                             *)
(***************************************************************************)
MaxSpecialOps == 4

\* BattleScene.handlePlayerInput in a frame in which only the special key has
\* just been pressed: useSpecial() and then createSpecialEffect(player).
specialKeyDown(facingRight, inRange) ==
    IF acceptsInput(playerId) /\ allFighters[playerId].specialCooldown <= 0
    THEN LET r == useSpecialState(playerId, allFighters[playerId])
             damage == calculateDamage(playerId, TRUE, "light", facingRight)
             world == [fighters |-> [allFighters EXCEPT ![playerId] = r.fighter],
                       pending |-> delayedCall(delayedCalls, playerId, r.delayed),
                       lastAttackers |-> lastAttackers, sys |-> scoreSystem, hits |-> {}]
             after == createSpecialEffectState(world, playerId,
                        (DOMAIN allFighters \ {playerId}) \cap inRange, damage, now, wallNow)
         IN  /\ allFighters' = after.fighters
             /\ delayedCalls' = after.pending
             /\ lastAttackers' = after.lastAttackers
             /\ scores' = after.sys.scores
             /\ damageHistory' = after.sys.damageHistory
             /\ koStreak' = [v \in DOMAIN koStreak |->
                                 IF \E h \in after.hits : h.fighter = v THEN 0 ELSE koStreak[v]]
             /\ hits' = after.hits
             /\ UNCHANGED <<respawnTimers, now, wallNow>>
    ELSE /\ hits' = {}
         /\ UNCHANGED <<allFighters, delayedCalls, respawnTimers, lastAttackers, now,
                        scoreVars>>

SpecialCall(A) == calls < MaxSpecialOps /\ A /\ calls' = calls + 1 /\ UNCHANGED aiVars

NextSpecial ==
    \/ \E facingRight \in BOOLEAN, inRange \in SUBSET enemyIds :
            SpecialCall(Named(specialKeyDown(facingRight, inRange), "handlePlayerInput"))
    \/ \E h \in BattleHits :
            SpecialCall(Named(takeDamage(playerId, h.amount, h.knockbackX, h.knockbackY),
                              "takeDamage"))
    \/ \E f \in FighterIds, d \in FrameSteps : SpecialCall(updateFighterFrame(f, d, TRUE))
    \/ \E d \in FrameSteps : SpecialCall(Named(clockUpdate(d), "none"))

SpecSpecial == InitFrames /\ [][NextSpecial]_vars

(***************************************************************************)
(* The skill-gated rolls, each taken once with every draw, by controllers  *)
(* of every tier with one rating set to 0 or to 1                          *)
(***************************************************************************)
RolledSkills == {"dodgeSkill", "inputAccuracy", "comboAbility", "recoverySkill"}
ExtremeRatings == {0, 100}
RollControllers ==
    {newAIController(id, [generateSkillLevel(d) EXCEPT ![k] = r]) :
        id \in {"rust", "python"}, d \in AIDifficulty, k \in RolledSkills, r \in ExtremeRatings}
\* The controlled fighter beside a swinging opponent, and knocked off the stage.
RollViews ==
    {[self |-> [x |-> p[1], y |-> 450, isGrounded |-> p[2], jumpsRemaining |-> 2,
                velocityX |-> 0, velocityY |-> 0, isHitstun |-> FALSE, facingRight |-> TRUE,
                specialCooldown |-> 0, damage |-> 0],
      enemies |-> <<[id |-> "lua", x |-> 670, y |-> 450, isGrounded |-> TRUE,
                     velocityX |-> 0, velocityY |-> 0, isAttacking |-> TRUE, damage |-> 0,
                     stocks |-> 3, isInvincible |-> FALSE, distance |-> 670 - p[1]]>>,
      cmds |-> <<>>] : p \in {<<640, TRUE>>, <<40, FALSE>>}}

InitRolls ==
    /\ now = 0
    /\ calls = 0
    /\ gameState = "playing"
    /\ fighterStates = <<>>
    /\ ret = "void"
    /\ ScoreIdle
    /\ BattleIdle
    /\ ai \in RollControllers
    /\ view \in RollViews
    /\ lastRoll = -1
    /\ lastCall = "none"

\* A roll taken with the draw, and whether it succeeded.
rolled(name, draw, success) ==
    /\ lastCall' = name
    /\ lastRoll' = draw
    /\ ret' = [success |-> success]
    /\ UNCHANGED <<ai, view, calls, now, fighterStates, scoreVars, battleVars, gameState>>

NextRolls ==
    \/ \E draw \in RandomDraws :
            /\ ~needsRecovery(view.self)
            /\ rolled("shouldDodge", draw, TRUE \in shouldDodge(ai.skill, view.enemies[1], {draw}))
    \/ \E draw \in RandomDraws : rolled("update", draw, accurate(ai.skill, draw))
    \/ \E draw \in RandomDraws :
            /\ ~needsRecovery(view.self)
            /\ \E o \in attackTarget(ai, view.self, view.enemies[1], {draw}) :
                    rolled("attackTarget", draw, \E i \in DOMAIN o.cmds : o.cmds[i] = "attack")
    \/ \E draw \in RandomDraws :
            /\ ~needsRecovery(view.self)
            /\ \E c \in distanceBands(ai, view.self, view.enemies[1], 0, {draw}) :
                    rolled("makeDecision", draw, c.state.comboCounter >= 2)
    \/ \E draw \in RandomDraws :
            /\ needsRecovery(view.self)
            /\ \E o \in handleRecovery(ai, view.self, {draw}) :
                    rolled("handleRecovery", draw,
                           \E i \in DOMAIN o.cmds : o.cmds[i] = "moveRight")

SpecRolls == InitRolls /\ [][NextRolls]_vars

(***************************************************************************)
(* Properties of StatusEffectSystem                                        *)
(***************************************************************************)
Registered == DOMAIN fighterStates
so(f) == fighterStates[f].stackOverflow
bugOf(f) == fighterStates[f].bug

\* C1: an onAttack call made while the fighter's stun flag is set returns false.
C1_StunnedAttackRejected ==
    [][\A f \in Registered : (so(f).isStunned /\ onAttack(f)) => ret' = "false"]_vars

\* C1 witness: onAttack has just returned false for a fighter whose stun began before
\* the call (an update has already run the stun timer down).
C1_Witness ==
    \E f \in Registered :
        /\ ret = "false"
        /\ so(f).isStunned
        /\ so(f).stunTimer < so(f).stunDuration

\* C2: the stun flag turns true exactly in the onAttack call whose increment brings the
\* counter to the threshold, and that call leaves the counter at 0; an onAttack call made
\* more than ATTACK_WINDOW after windowStart counts from 0 again; and the counter is
\* below the threshold in every reachable state.
C2_StunExactlyAtThreshold ==
    /\ [](\A f \in Registered : so(f).attackCounter < so(f).threshold)
    /\ [][\A f \in Registered :
            LET before  == so(f)
                after   == fighterStates'[f].stackOverflow
                expired == now - before.windowStart > ATTACK_WINDOW
                base    == IF expired THEN 0 ELSE before.attackCounter
            IN  /\ (~before.isStunned /\ after.isStunned) =>
                        /\ onAttack(f)
                        /\ base + 1 = before.threshold
                        /\ after.attackCounter = 0
                /\ (onAttack(f) /\ ~before.isStunned /\ base + 1 = before.threshold) =>
                        after.isStunned
                /\ (onAttack(f) /\ ~before.isStunned /\ expired) =>
                        /\ after.windowStart = now
                        /\ after.attackCounter = 1]_vars

\* C2 witness: the stun has just been triggered in a window that was restarted.
C2_Witness ==
    \E f \in Registered :
        /\ ret = "false"
        /\ so(f).isStunned
        /\ so(f).stunTimer = so(f).stunDuration
        /\ so(f).attackCounter = 0
        /\ so(f).windowStart > 0

\* C3: T consecutive onAttack calls of a freshly registered fighter, T its threshold
\* floor(15 * (1 + rating)) (28 for rating 0.9), return true for the first T - 1 and
\* false on the T-th, which leaves the fighter stunned.
C3_ConsecutiveAttacks ==
    \A f \in Registered :
        LET T == (15 * (100 + memoryMgmt(f))) \div 100
        IN  /\ f = "rust" => T = 28
            /\ so(f).threshold = T
            /\ calls \in 1..(T - 1) => (ret = "true" /\ ~so(f).isStunned)
            /\ calls = T => (ret = "false" /\ so(f).isStunned)

\* C3 witness: the 28th call of the rating-0.9 fighter has been made.
C3_Witness == registered("rust") /\ calls = 28 /\ ret = "false" /\ now > 6000

\* C4: bug.effects is empty iff bug.isActive is false, holds at most 3 entries and no
\* effect twice.
C4_BugEffectsInvariant ==
    \A f \in Registered :
        /\ (Len(bugOf(f).effects) = 0) <=> ~bugOf(f).isActive
        /\ Len(bugOf(f).effects) <= 3
        /\ Cardinality(Range(bugOf(f).effects)) = Len(bugOf(f).effects)

\* C4 witness: three effects are active at once.
C4_Witness ==
    \E f \in Registered : bugOf(f).isActive /\ Len(bugOf(f).effects) = 3

(***************************************************************************)
(* Properties of ScoreSystem                                               *)
(***************************************************************************)
\* The unexpired damage `a` has on record against `v`, summed record by record.
RECURSIVE UnexpiredDamage(_, _, _)
UnexpiredDamage(a, v, i) ==
    IF i = 0
    THEN 0
    ELSE LET r == damageHistory[v][i]
         IN  UnexpiredDamage(a, v, i - 1)
                + (IF r.attacker = a /\ wallNow - r.timestamp < 15000 THEN r.amount ELSE 0)

\* C7: recordKO(V, K) with a registered killer K adds exactly 100 to K's push and nothing
\* to K's commit; every other attacker gains 0.3 x its unexpired damage against V in
\* commit; no other score changes.
C7_KOAttribution ==
    [][\A v \in Victims, k \in ScoreFighters :
            (k # v /\ recordKO(v, k)) =>
                /\ scores'[k].push = scores[k].push + 100 * ScoreUnit
                /\ scores'[k].commit = scores[k].commit
                /\ \A a \in ScoreFighters \ {k} :
                      /\ scores'[a].push = scores[a].push
                      \* 0.3 x damage: damage is stored x 1000, commit x 10000
                      /\ scores'[a].commit =
                            scores[a].commit + 3 * UnexpiredDamage(a, v, Len(damageHistory[v]))
                /\ \A f \in ScoreFighters :
                      /\ scores'[f].stage = scores[f].stage
                      /\ scores'[f].bonus = scores[f].bonus]_vars

\* C7 witness: recordDamage(A,V,40), recordDamage(B,V,10), recordKO(V,A) have been made:
\* A holds 100 push and no commit, B holds 3 commit, and V's ledger is empty.
C7_Witness ==
    /\ calls = 3
    /\ scores["A"] = [push |-> 100 * ScoreUnit, stage |-> 20 * ScoreUnit, commit |-> 0, bonus |-> 0]
    /\ scores["B"] = [push |-> 0, stage |-> 5 * ScoreUnit, commit |-> 3 * ScoreUnit, bonus |-> 0]
    /\ damageHistory["V"] = <<>>
    /\ koStreak["V"] = 1

\* C8: after recordKO(V, k) the ledger of V is empty, and a further recordKO(V, k2) with
\* no recordDamage against V in between awards no commit to anyone.
C8_LedgerClearedByKO ==
    /\ [](\A v \in DOMAIN koStreak : koStreak[v] >= 1 => damageHistory[v] = <<>>)
    /\ [][\A v \in Victims, k \in ScoreFighters \cup {"null"} :
            (koStreak[v] >= 1 /\ recordKO(v, k)) =>
                \A f \in ScoreFighters : scores'[f].commit = scores[f].commit]_vars

\* C8 witness: V has been knocked out twice in a row, the first time with an assist.
C8_Witness == koStreak["V"] = 2 /\ scores["B"].commit > 0 /\ calls = 3

\* C9: getTotalScore of a fighter never decreases.
C9_TotalScoreMonotone ==
    [][\A f \in ScoreFighters : totalOf(scores'[f]) >= totalOf(scores[f])]_vars

\* C9 witness: all four accumulators of one fighter have grown.
C9_Witness ==
    \E f \in ScoreFighters :
        /\ scores[f].push > 0
        /\ scores[f].stage > 0
        /\ scores[f].commit > 0
        /\ scores[f].bonus > 0
        /\ getTotalScore(f) > 100

(***************************************************************************)
(* Properties of Fighter and of KO handling                                *)
(***************************************************************************)
\* takeDamage(10, -100, -50)
ScenarioHit(f) == [fighter |-> f, amount |-> 10000, knockbackX |-> -100, knockbackY |-> -50]

\* A takeDamage call of the step that finds its fighter vulnerable.
Landed(h) == ~allFighters[h.fighter].isInvincible

\* C5 as stated: takeDamage(10, -100, -50) on a non-invincible fighter whose damage
\* is 50 before the call sets the velocity to (-150, -75), the supplied vector
\* scaled by 1 + (damage before the hit) / 100.
C5_ScenarioVelocityAsStated ==
    [][\A h \in hits' :
          (Landed(h) /\ h = ScenarioHit(h.fighter) /\ allFighters[h.fighter].damage = 50000)
              => allFighters'[h.fighter].velocity = <<-150 * VelocityUnit, -75 * VelocityUnit>>]_vars

\* C5, amended: takeDamage on a non-invincible fighter sets the velocity to the
\* supplied knockback vector scaled by 1 + (damage after the hit) / 100, so
\* takeDamage(10, -100, -50) at damage 50 sets it to (-160, -80).
C5_KnockbackScaledByDamageAfterHit ==
    [][\A h \in hits' :
          Landed(h) =>
              LET after == allFighters[h.fighter].damage + h.amount
              IN  /\ allFighters'[h.fighter].damage = after
                  /\ allFighters'[h.fighter].velocity =
                        <<h.knockbackX * (VelocityUnit + after),
                          h.knockbackY * (VelocityUnit + after)>>
                  /\ (h = ScenarioHit(h.fighter) /\ after = 60000)
                        => allFighters'[h.fighter].velocity =
                                <<-160 * VelocityUnit, -80 * VelocityUnit>>]_vars

\* The scenario has just happened: the fighter stood at 50 and was hit for 10.
C5_Witness ==
    /\ hits = {ScenarioHit(FighterUnderTest)}
    /\ ~allFighters[FighterUnderTest].isInvincible
    /\ allFighters[FighterUnderTest].damage = 60000
    /\ allFighters[FighterUnderTest].velocity = <<-160 * VelocityUnit, -80 * VelocityUnit>>

\* C6: a takeDamage that lands schedules the end of hitstun after
\* min(100 + 2 x damage, 500) ms, damage being the accumulator after the hit and
\* nothing else (220 ms for a fighter at 50 hit for 10); the delay never exceeds
\* 500 ms and is the same whatever the knockback vector.
C6_HitstunDuration ==
    [][\A h \in hits' :
          Landed(h) =>
              LET after == allFighters[h.fighter].damage + h.amount
                  long == 100 * 1000 + 2 * after
                  delay == IF long < 500 * 1000 THEN long ELSE 500 * 1000
                  scheduled == [fighter |-> h.fighter, callback |-> "hitstunEnd",
                                remaining |-> delay]
              IN  /\ allFighters'[h.fighter].isHitstun
                  /\ scheduled \in delayedCalls'
                  /\ delayedCalls' \subseteq delayedCalls \cup {scheduled}
                  /\ delay <= 500 * 1000
                  /\ after = 60000 => delay = 220 * 1000]_vars

\* A hit has just landed at more than 200 and its hitstun is capped at 500 ms,
\* while an earlier hit's shorter hitstun is still pending.
C6_Witness ==
    /\ \E h \in hits : h.amount > 10000
    /\ allFighters[FighterUnderTest].damage > 200000
    /\ [fighter |-> FighterUnderTest, callback |-> "hitstunEnd", remaining |-> 500 * 1000]
            \in delayedCalls
    /\ \E c \in delayedCalls : c.callback = "hitstunEnd" /\ c.remaining < 500 * 1000

\* C10: every fighter's damage is at least 0 and its stocks lie within
\* 0 .. 3, whatever sequence of takeDamage, loseStock, respawn, special hits,
\* KO handling and respawn timers has run.
C10_DamageAndStocksInRange ==
    \A f \in DOMAIN allFighters :
        /\ allFighters[f].damage >= 0
        /\ allFighters[f].stocks \in 0 .. 3

\* An enemy has lost its last stock to a KO and awaits no respawn, while the
\* player is still in play.
C10_Witness ==
    /\ \E e \in enemyIds :
            /\ allFighters[e].stocks = 0
            /\ ~allFighters[e].visible
            /\ e \notin DOMAIN respawnTimers
    /\ allFighters[playerId].visible
    /\ allFighters[playerId].stocks \in 1 .. 3

(***************************************************************************)
(* Properties of AIController                                              *)
(***************************************************************************)
\* A decision has been taken and it selected a target.
Decided == lastRoll >= 0 /\ ai.state.targetEnemy # "null"
\* The selected target, as the controller sees it.
TargetView ==
    CHOOSE e \in {view.enemies[i] : i \in 1..Len(view.enemies)} : e.id = ai.state.targetEnemy
\* The selected target is mid-attack and within the dodge proximity.
TargetThreatens == Decided /\ TargetView.isAttacking /\ TargetView.distance <= 120
InCloseBand == TargetView.distance < ai.optimalDistance + 30

\* C11: after every decision of a controller with dodgeSkill = 1.0 whose selected
\* target is attacking and at distance <= 120, the behaviour is defend, whatever the
\* rolls, the personality, the other skills and the rest of the situation.
C11_PerfectDodgeAlwaysDefends ==
    (ai.skill.dodgeSkill = 100 /\ TargetThreatens) => ai.state.currentAction = "defend"

\* Such a decision at the proximity limit, by a controller that does not adapt.
C11_Witness ==
    /\ ai.skill.dodgeSkill = 100 /\ ai.skill.adaptationRate <= 40
    /\ TargetThreatens /\ TargetView.distance = 120
    /\ ai.state.currentAction = "defend"

\* C12 as stated: after every decision of a controller with dodgeSkill = 0.0 whose
\* selected target is attacking and adjacent, the behaviour is not defend.
C12_NoDodgeNeverDefends ==
    (ai.skill.dodgeSkill = 0 /\ TargetThreatens) => ai.state.currentAction # "defend"

\* C12, amended: after every decision of a controller with dodgeSkill = 0.0 whose
\* selected target is attacking and adjacent, the behaviour is defend only as the
\* fallback of the close band: the target is nearer than the optimal distance plus
\* 30, the roll did not fall below the aggression, and the retreat case (own damage
\* above 80 and roll below 0.5) did not apply.
C12_NoDodgeDefendsOnlyAsFallback ==
    (ai.skill.dodgeSkill = 0 /\ TargetThreatens /\ ai.state.currentAction = "defend")
        => /\ InCloseBand
           /\ lastRoll >= ai.personality.aggression * 100
           /\ ~(view.self.damage > 80000 /\ lastRoll < 5000)

\* A controller that never dodges and adapts defends against an adjacent attacker.
C12_Witness ==
    /\ ai.skill.dodgeSkill = 0 /\ ai.skill.adaptationRate > 40
    /\ TargetThreatens /\ InCloseBand
    /\ ai.state.currentAction = "defend"

\* The selected target is beyond the medium band, and neither the edgeguard rule
\* nor the special rule took the decision (the dodge rule needs distance <= 120).
FarDecision ==
    /\ Decided
    /\ TargetView.distance >= 200
    /\ ~(ai.skill.edgeguardSkill > 30 /\ shouldEdgeguard(view.self, TargetView))
    /\ ai.state.currentAction # "special"

\* The adaptation step of makeDecision can turn the behaviour into defend.
CanAdapt == ai.skill.adaptationRate > 40 /\ TargetView.isAttacking /\ ai.skill.dodgeSkill > 0

\* C36 as stated: after every decision against a target at distance >= 200 that
\* neither the dodge, the edgeguard nor the special rule took, the behaviour is
\* chase.
C36_FarAlwaysChases ==
    FarDecision => ai.state.currentAction = "chase"

\* C36, amended: after every such decision the behaviour is chase, unless the
\* final adaptation step (adaptationRate > 0.4, target attacking, roll below the
\* dodge skill) replaced it by defend.
C36_FarChasesUnlessAdapted ==
    FarDecision =>
        /\ ai.state.currentAction \in {"chase", "defend"}
        /\ ai.state.currentAction = "defend" => CanAdapt

\* A controller that adapts chases an attacking target far away: its adaptation
\* roll failed.
C36_Witness ==
    /\ FarDecision
    /\ CanAdapt
    /\ ai.state.currentAction = "chase"

\* Every twentieth of the unit interval, as a roll.
FineDraws == {500 * k : k \in 0..19}

\* The decision is left to the roll of the close band: the controller's own damage
\* exceeds 80, its target is inside the close band and does not attack (no dodge,
\* no adaptation), the edgeguard rule does not apply and the special is cooling
\* down.
CloseRollSituation ==
    /\ findBestTarget(view.enemies) # 0
    /\ LET target == view.enemies[findBestTarget(view.enemies)]
       IN  /\ view.self.damage > 80000
           /\ target.distance < 40 + ((100 - ai.skill.spacingSkill) * 40) \div 100 + 30
           /\ ~target.isAttacking
           /\ ~(ai.skill.edgeguardSkill > 30 /\ shouldEdgeguard(view.self, target))
           /\ view.self.specialCooldown > 0

\* The decision can come out as retreat.
CanRetreat ==
    \E roll \in FineDraws :
        \E c \in makeDecisionOutcomes(ai, view, roll, FineDraws) :
            c.state.currentAction = "retreat"

\* C39: whatever the personality, a controller whose own damage exceeds 80 and
\* whose target is inside the close band can select retreat: some roll makes the
\* decision come out as retreat.
C39_RetreatReachable ==
    CloseRollSituation => CanRetreat

\* The personalities for which some roll selects retreat have aggression below 0.5.
RetreatNeedsLowAggression ==
    CloseRollSituation => (CanRetreat <=> ai.personality.aggression < 50)

(***************************************************************************)
(* Properties of swings, moves and cooldowns                               *)
(***************************************************************************)
\* C13: within one swing (from an accepted attack() until the swing ends) each
\* victim receives damage from that swing at most once, however often the overlap
\* handler runs for the pair.
C13_OneHitPerSwing == \A p \in DOMAIN swingHits : swingHits[p] <= 1

\* The player's swing has struck the enemy once and is still going, after an earlier
\* swing of the player had struck it too.
C13_Witness ==
    /\ <<playerId, "lua">> \in DOMAIN swingHits
    /\ swingHits[<<playerId, "lua">>] = 1
    /\ allFighters[playerId].isAttacking
    /\ "lua" \in allFighters[playerId].hitTargets
    /\ allFighters["lua"].damage
            > calculateDamage(playerId, FALSE, "heavy", TRUE).amount

\* C14 as stated: from an activateInvincibility(d) call until d has elapsed (its
\* callback is still pending) the fighter is invincible, whatever other grant is
\* pending or overlaps.
C14_InvincibleUntilGrantEnds ==
    \A c \in delayedCalls :
        c.callback = "invincibleEnd" => allFighters[c.fighter].isInvincible

\* C15: takeDamage on a fighter whose isInvincible flag is set changes nothing:
\* damage, isHitstun, velocity and every other field of the fighter stay as they
\* were and no hitstun-end callback is scheduled.
C15_InvincibleTakesNoDamage ==
    [][(hits' # {} /\ \A h \in hits' : allFighters[h.fighter].isInvincible)
            => allFighters' = allFighters /\ delayedCalls' = delayedCalls]_vars

\* takeDamage has just been called on the invincible fighter, which carries damage
\* from before and is out of hitstun.
C15_Witness ==
    /\ hits # {}
    /\ allFighters[FighterUnderTest].isInvincible
    /\ allFighters[FighterUnderTest].damage > 0
    /\ ~allFighters[FighterUnderTest].isHitstun

\* C16: attack(type) called while attackCooldown > 0 or while the fighter is in
\* hitstun has no effect: isAttacking, currentAttackType, attackCooldown, the set of
\* victims already hit and every other field stay as they were, and no end-of-swing
\* callback is scheduled.
C16_RejectedAttackChangesNothing ==
    [][(/\ lastCall' = "attack"
        /\ \/ allFighters[FighterUnderTest].attackCooldown > 0
           \/ allFighters[FighterUnderTest].isHitstun)
            => allFighters' = allFighters /\ delayedCalls' = delayedCalls]_vars

\* attack() has just been called on a fighter in hitstun whose cooldown has run out
\* and whose last swing is over.
C16_Witness ==
    /\ lastCall = "attack"
    /\ allFighters[FighterUnderTest].isHitstun
    /\ allFighters[FighterUnderTest].attackCooldown <= 0
    /\ ~allFighters[FighterUnderTest].isAttacking
    /\ \A c \in delayedCalls : c.callback # "attackEnd"

\* C17 as stated, for every call of jump() and update() on the fighter:
\* (a) jump() in hitstun, or in the air with no charge left, returns false and
\*     changes nothing;
\* (b) a successful jump from the ground is at full force and leaves exactly one
\*     charge, and a successful jump in the air is at reduced force and uses one
\*     charge, so that exactly one more jump succeeds before the fighter is next
\*     grounded;
\* (c) an update that finds the fighter grounded leaves the charge count at 2.
C17_JumpCharges ==
    [][LET before == allFighters[FighterUnderTest]
           after == allFighters'[FighterUnderTest]
       IN  /\ (/\ lastCall' = "jump"
               /\ before.isHitstun \/ (~before.isGrounded /\ before.jumpsRemaining <= 0))
                  => ret' = "false" /\ allFighters' = allFighters
           /\ (lastCall' = "jump" /\ ret' = "true" /\ before.isGrounded)
                  => /\ after.jumpsRemaining = 1
                     /\ after.velocity[2] = -jumpForce(FighterUnderTest) * VelocityUnit
           /\ (lastCall' = "jump" /\ ret' = "true" /\ ~before.isGrounded)
                  => /\ after.jumpsRemaining = before.jumpsRemaining - 1
                     /\ after.jumpsRemaining >= 0
                     /\ after.velocity[2]
                            = -jumpForce(FighterUnderTest) * (VelocityUnit \div 100) * 85
           /\ (lastCall' = "update" /\ after.isGrounded) => after.jumpsRemaining = 2]_vars

\* C18 as stated: the attack, special and sub-ability cooldown timers of a fighter
\* are never negative, whatever sequence of attack, useSpecial, useSubAbility and
\* update(delta) calls with positive delta has been made.
C18_CooldownsNeverNegative ==
    \A f \in DOMAIN allFighters :
        /\ allFighters[f].attackCooldown >= 0
        /\ allFighters[f].specialCooldown >= 0
        /\ allFighters[f].subAbilityCooldown >= 0

(***************************************************************************)
(* Properties of the debuff under damage events                            *)
(***************************************************************************)
\* C19 as stated: when the bug roll of an onTakeDamage call succeeds for a fighter
\* whose bug mode is inactive, the call leaves bug mode active with the base
\* duration of 3000 left and exactly one effect.
C19_TriggerLeavesBaseDuration ==
    [][(/\ lastCall' = "onTakeDamage"
        /\ ~bugOf(HitFighter).isActive
        /\ bugOf(HitFighter)'.isActive)
            => /\ bugOf(HitFighter)'.duration = BUG_DURATION
               /\ Len(bugOf(HitFighter)'.effects) = 1]_vars

\* C20 as stated: an onTakeDamage call made while bug mode is active makes the
\* duration grow and leaves the effect list as it was or extends it by one effect
\* that was not in it, up to three: no effect is removed or replaced.
C20_ActiveBugOnlyWorsens ==
    [][(lastCall' = "onTakeDamage" /\ bugOf(HitFighter).isActive)
            => LET old == bugOf(HitFighter).effects
                   new == bugOf(HitFighter)'.effects
               IN  /\ bugOf(HitFighter)'.duration > bugOf(HitFighter).duration
                   /\ \/ new = old
                      \/ /\ Len(new) = Len(old) + 1
                         /\ Len(new) <= MAX_BUG_EFFECTS
                         /\ SubSeq(new, 1, Len(old)) = old
                         /\ new[Len(new)] \notin Range(old)]_vars

(***************************************************************************)
(* Properties of the attack window and the stun                            *)
(***************************************************************************)
\* C21 as stated: threshold-many attack attempts within a span no longer than the
\* window (here from SpanStart to SpanStart + 5000) leave the fighter stunned,
\* wherever the span lies relative to windowStart.
C21_SlidingWindow ==
    \A f \in Registered :
        calls = so(f).threshold => so(f).isStunned

\* C21, amended: threshold-many attack attempts none of which is made later than
\* 5000 after the windowStart in force at the first of them (0, from registration)
\* leave the fighter stunned.
C21_WithinOneWindow ==
    \A f \in Registered :
        (calls = so(f).threshold /\ now <= ATTACK_WINDOW) => so(f).isStunned

\* The last of threshold-many attempts, made at the very end of the window opened
\* at registration, has stunned the fighter.
C21_Witness ==
    \E f \in Registered :
        /\ calls = so(f).threshold
        /\ now = ATTACK_WINDOW
        /\ so(f).windowStart = 0
        /\ so(f).isStunned

\* C22: a stun lasts the fixed stun duration.  stunTimer is 2000 less the deltas
\* passed to update since the stun was triggered, so: a stunned fighter always has
\* time left on the timer; an update that leaves time on the timer leaves the
\* fighter stunned and the one that uses the timer up ends the stun; and a stun
\* ends in no other way than by that update or by clearEffects (which leaves the
\* timer alone and resets the counter and the debuff).
C22_StunLastsItsDuration ==
    [][\A f \in Registered :
        LET before == so(f)
            after == fighterStates'[f].stackOverflow
        IN  /\ after.isStunned => after.stunTimer > 0 /\ after.stunTimer <= SO_STUN_DURATION
            /\ (~before.isStunned /\ after.isStunned) => after.stunTimer = SO_STUN_DURATION
            /\ (before.isStunned /\ after.stunTimer # before.stunTimer)
                    => /\ after.stunTimer < before.stunTimer
                       /\ after.isStunned <=> after.stunTimer > 0
            /\ (before.isStunned /\ ~after.isStunned /\ after.stunTimer = before.stunTimer)
                    => /\ after.attackCounter = 0
                       /\ ~fighterStates'[f].bug.isActive
                       /\ fighterStates'[f].bug.effects = <<>>]_vars

\* A stun has been ended by an update that overshot the stun duration: updates of
\* 1000 and 2000 after the trigger.
C22_Witness ==
    \E f \in Registered :
        /\ ~so(f).isStunned
        /\ so(f).stunTimer = SO_STUN_DURATION - 3000
        /\ so(f).attackCounter = 0

(***************************************************************************)
(* Properties of respawn and of the stun seen from the fighter             *)
(***************************************************************************)
\* C23 as stated: directly after a fighter has respawned (its respawn timer has run
\* out and it has left the respawn list) it is neither stunned nor in bug mode, its
\* list of bug effects is empty and its attack counter is 0.
C23_RespawnResetsStatus ==
    [][\A f \in DOMAIN respawnTimers :
            f \notin DOMAIN respawnTimers'
                => /\ ~fighterStates'[f].stackOverflow.isStunned
                   /\ ~fighterStates'[f].bug.isActive
                   /\ fighterStates'[f].bug.effects = <<>>
                   /\ fighterStates'[f].stackOverflow.attackCounter = 0]_vars

\* C24: respawn(x, y) leaves the fighter at (x, y) with zero velocity, damage 0,
\* isHitstun, isAttacking and isUsingSpecial false, an empty hit-set and no bug
\* effects, and with the stocks it had; and a callback that runs when the clock
\* advances (a swing's or a hitstun's end scheduled earlier, before a respawn or
\* not) changes none of those values except by setting a flag to false and
\* emptying the hit-set.
C24_RespawnResetsFighter ==
    [][\A f \in DOMAIN allFighters :
        LET before == allFighters[f]
            after == allFighters'[f]
        IN  /\ lastCall' = "respawn"
                => /\ after.position = RespawnPoint
                   /\ after.velocity = <<0, 0>>
                   /\ after.damage = 0
                   /\ ~after.isHitstun /\ ~after.isAttacking /\ ~after.isUsingSpecial
                   /\ after.hitTargets = {}
                   /\ after.activeBugEffects = <<>>
                   /\ after.stocks = before.stocks
            /\ now' # now
                => /\ after.position = before.position
                   /\ after.velocity = before.velocity
                   /\ after.damage = before.damage
                   /\ after.stocks = before.stocks
                   /\ after.activeBugEffects = before.activeBugEffects
                   /\ after.isHitstun => before.isHitstun
                   /\ after.isAttacking => before.isAttacking
                   /\ after.isUsingSpecial => before.isUsingSpecial
                   /\ after.hitTargets \subseteq before.hitTargets]_vars

\* respawn has just been called on a fighter with the ends of a swing and of a
\* hitstun still pending.
C24_Witness ==
    /\ lastCall = "respawn"
    /\ allFighters[FighterUnderTest].position = RespawnPoint
    /\ \E c \in delayedCalls : c.callback = "attackEnd"
    /\ \E c \in delayedCalls : c.callback = "hitstunEnd"

(***************************************************************************)
(* Properties of target selection and recovery                             *)
(***************************************************************************)
\* 2000 times -0.5 x distance + 2 x damage + 50 x (3 - stocks), minus 500 if
\* invincible (damage being held in thousandths).
ClaimedScore(e) ==
    4 * e.damage - 1000 * e.distance + 100000 * (3 - e.stocks)
        - (IF e.isInvincible THEN 1000000 ELSE 0)
\* The positions in the scene's list of the opponents that are still in the game.
LivingOpponents ==
    {i \in 1..Len(view.fighters) :
        view.fighters[i].id # ai.fighter /\ view.fighters[i].stocks > 0}

\* C25: after a decision the target is the living opponent of maximal score, the
\* earliest in the list among equals; it is never the controller's own fighter nor
\* a fighter without stocks; it is null exactly when no opponent has stocks left,
\* and then the behaviour is idle.
C25_BestTargetChosen ==
    lastCall = "makeDecision"
        => /\ ai.state.targetEnemy # ai.fighter
           /\ ai.state.targetEnemy = "null" <=> LivingOpponents = {}
           /\ ai.state.targetEnemy = "null" => ai.state.currentAction = "idle"
           /\ ai.state.targetEnemy # "null"
                => \E i \in LivingOpponents :
                      /\ view.fighters[i].id = ai.state.targetEnemy
                      /\ \A j \in LivingOpponents :
                            /\ ClaimedScore(view.fighters[j]) <= ClaimedScore(view.fighters[i])
                            /\ ClaimedScore(view.fighters[j]) = ClaimedScore(view.fighters[i])
                                    => j >= i

\* The controller has chosen ruby, listed before lua at the same score and after
\* its own fighter and an invincible one.
C25_Witness ==
    /\ lastCall = "makeDecision"
    /\ Len(view.fighters) = 3
    /\ view.fighters[1].id = ai.fighter
    /\ view.fighters[2].id = "ruby"
    /\ view.fighters[3].id = "lua"
    /\ ai.state.targetEnemy = "ruby"

\* The fighter of the view is off the stage or past the fall threshold.
OffStage == view.self.x < 50 \/ view.self.x > 1230 \/ view.self.y > 620
\* The frame's calls on the fighter are those of the recovery: towards the centre of
\* the stage (at once when the recovery skill is above 0.6), jumps and the special.
RecoveryRan ==
    LET towards == IF view.self.x < 640 THEN "moveRight" ELSE "moveLeft" IN
    /\ ai'.state.currentAction = "recover"
    /\ \A i \in 1..Len(view'.cmds) : view'.cmds[i] \in {towards, "jump", "useSpecial"}
    /\ ai.skill.recoverySkill > 60 => view'.cmds # <<>> /\ view'.cmds[1] = towards
    /\ view.self.jumpsRemaining > 0 /\ ai.skill.recoverySkill <= 70
            => \E i \in 1..Len(view'.cmds) : view'.cmds[i] = "jump"
    /\ ai'.state.targetEnemy = ai.state.targetEnemy
    /\ ai'.lastDecisionTime = ai.lastDecisionTime

\* C26 as claimed: every update of a controller whose fighter is off the stage forces
\* the recover behaviour and runs the recovery, whatever the fighter's other state.
C26_RecoveryOverridesAll ==
    [][now' # now /\ OffStage => RecoveryRan]_vars

\* C26: every update of a controller whose fighter is off the stage and not in
\* hitstun forces the recover behaviour and runs the recovery, whatever the target,
\* the timers and the rolls.
C26_RecoveryUnlessHitstun ==
    [][now' # now /\ OffStage /\ ~view.self.isHitstun => RecoveryRan]_vars

\* A controller that had chosen to attack its target has been forced to recover from
\* below the stage.
C26_Witness ==
    /\ lastCall = "update"
    /\ view.self.y > 620
    /\ ~view.self.isHitstun
    /\ ai.state.currentAction = "recover"
    /\ ai.state.targetEnemy = "lua"
    /\ ai.state.comboCounter > 0

(***************************************************************************)
(* Properties of the expiry of damage records                              *)
(***************************************************************************)
\* The amounts of the records of `a` against `v` that are younger than the window.
YoungAmounts(a, v) ==
    LET young == {i \in 1..Len(damageHistory[v]) :
                    /\ damageHistory[v][i].attacker = a
                    /\ wallNow - damageHistory[v][i].timestamp < 15000}
        RECURSIVE total(_)
        total(s) == IF s = {} THEN 0
                    ELSE LET i == CHOOSE j \in s : TRUE
                         IN  damageHistory[v][i].amount + total(s \ {i})
    IN  total(young)

\* C27: at recordKO the commit awarded to an attacker (the killer is awarded none) is
\* 0.3 x the sum of its records against the victim younger than 15000; a record that
\* old or older adds nothing, and an attacker with none younger is awarded nothing.
C27_ExpiredRecordsEarnNothing ==
    [][\A v \in Victims, k \in ScoreFighters \cup {"null"} :
            (k # v /\ recordKO(v, k)) =>
                \A a \in ScoreFighters \ {k} :
                    scores'[a].commit = scores[a].commit + 3 * YoungAmounts(a, v)]_vars

\* A hit V at time 0 and B hit V at 7501; V fell at 15002 with no killer: B has its
\* commit and A, whose record had expired, has none.
C27_Witness ==
    /\ calls = 3
    /\ wallNow = 15002
    /\ koStreak["V"] = 1
    /\ damageHistory["B"] = <<>>
    /\ scores["A"].stage > 0 /\ scores["A"].commit = 0 /\ scores["A"].push = 0
    /\ scores["B"].commit > 0 /\ scores["B"].push = 0

(***************************************************************************)
(* Properties of calls for a fighter a system was never given              *)
(***************************************************************************)
\* The last call was the query `name` about a fighter neither system knows.
AskedOfStranger(name) ==
    lastCall = name /\ ret.of \in Strangers

Queries ==
    {"isStunned", "isBugged", "getBugEffects", "getStackOverflowProgress",
     "getTotalScore", "getPushCount", "getScoreBreakdown"}

\* C28 (queries): about a fighter never registered, isStunned and isBugged return
\* false, getBugEffects an empty list, getStackOverflowProgress, getTotalScore and
\* getPushCount 0, and getScoreBreakdown all zeros.
C28_UnregisteredDefaults ==
    /\ AskedOfStranger("isStunned") => ret.value = FALSE
    /\ AskedOfStranger("isBugged") => ret.value = FALSE
    /\ AskedOfStranger("getBugEffects") => ret.value = <<>>
    /\ AskedOfStranger("getStackOverflowProgress") => ret.value = 0
    /\ AskedOfStranger("getTotalScore") => ret.value = 0
    /\ AskedOfStranger("getPushCount") => ret.value = 0
    /\ AskedOfStranger("getScoreBreakdown")
            => ret.value = [push |-> 0, stage |-> 0, commit |-> 0, bonus |-> 0]

\* C28 (no-ops): update, onTakeDamage and clearEffects for a fighter never registered
\* change nothing in either system, and no query changes anything at all.
C28_UnregisteredNoOps ==
    [][/\ \A f \in Strangers, delta \in FrameDeltas :
            /\ lastCall' \in {"update", "onTakeDamage", "clearEffects"}
            /\ update(f, delta) \/ onTakeDamage(f, ExtremeDraws) \/ clearEffects(f)
            => UNCHANGED <<fighterStates, scoreVars>>
       /\ lastCall' \in Queries => UNCHANGED <<fighterStates, scoreVars>>]_vars

\* C28: calls for a fighter never registered with a system return the defaults and
\* change no state of the registered fighters.
C28_UnregisteredDegrade ==
    []C28_UnregisteredDefaults /\ C28_UnregisteredNoOps

\* The breakdown of the stranger has been asked for while the known fighters hold
\* scores and the registered fighter is stunned.
C28_Witness ==
    /\ AskedOfStranger("getScoreBreakdown")
    /\ ret.value = [push |-> 0, stage |-> 0, commit |-> 0, bonus |-> 0]
    /\ scores["rust"].push > 0
    /\ isStunned("rust")

(***************************************************************************)
(* Properties of hitstun and of the stack-overflow stun                    *)
(***************************************************************************)
\* C29: a fighter hit at time t stays in hitstun until that hit's own duration has
\* elapsed: when the passing of time ends a hitstun, no hitstun-end event of a later
\* hit is still waiting.
C29_HitstunLastsItsDuration ==
    [][\A f \in DOMAIN allFighters :
            (now' # now /\ allFighters[f].isHitstun /\ ~allFighters'[f].isHitstun)
                => ~\E c \in delayedCalls' : c.fighter = f /\ c.callback = "hitstunEnd"]_vars

\* C30: a fighter stunned by stack overflow regains control once the stun is over
\* without being hit or knocked out again: a fighter the status system no longer
\* reports stunned is out of hitstun, or a hitstun-end event is waiting to release it.
C30_ControlReturnsAfterStun ==
    \A f \in DOMAIN allFighters :
        (~isStunned(f) /\ allFighters[f].isHitstun)
            => \E c \in delayedCalls : c.fighter = f /\ c.callback = "hitstunEnd"

(***************************************************************************)
(* Properties of the pause                                                 *)
(***************************************************************************)
\* C31: while the game is paused no fighter's isAttacking, isHitstun or isInvincible
\* changes and the time each of these effects has left stays what it was.
C31_PauseFreezesEffects ==
    [][(gameState = "paused" /\ gameState' = "paused")
            => /\ \A f \in DOMAIN allFighters :
                    /\ allFighters'[f].isAttacking = allFighters[f].isAttacking
                    /\ allFighters'[f].isHitstun = allFighters[f].isHitstun
                    /\ allFighters'[f].isInvincible = allFighters[f].isInvincible
               /\ delayedCalls' = delayedCalls]_vars

(***************************************************************************)
(* Properties of the fighter's state-machine state                         *)
(***************************************************************************)

\* The special whose 500 ms end callback is still outstanding.
SpecialPending(f) ==
    \E c \in delayedCalls : c.fighter = f /\ c.callback = "specialEnd"

\* C32: from an accepted useSpecial() until its 500 ms timer expires, Fighter.update
\* leaves the state-machine state at special: no update() call replaces it by a
\* state derived from the physics (idle, walk, jump, fall) or by hurt.
C32_SpecialIsSticky ==
    [][\A f \in DOMAIN allFighters :
            (/\ lastCall' = "update"
             /\ allFighters[f].animState = "special"
             /\ SpecialPending(f))
                => allFighters'[f].animState = "special"]_vars

(***************************************************************************)
(* Properties of knock-outs and respawns                                   *)
(***************************************************************************)

\* The fighter is out of play: it waits to respawn or is hidden or disabled.
OutOfPlay(f) ==
    \/ f \in DOMAIN respawnTimers
    \/ ~allFighters[f].visible
    \/ ~allFighters[f].bodyEnable

\* C33: each KO costs exactly one stock.  A step takes at most one stock from a
\* fighter and only handleKO takes one; handleKO leaves a fighter that waits to
\* respawn or is hidden or disabled, the timers and the scores as they are;
\* recordKO runs for a fighter exactly in the steps in which it loses a stock; a
\* fighter without stocks has no respawn timer and stays hidden and disabled.
C33_OneStockPerKO ==
    [][\A f \in DOMAIN allFighters :
            /\ allFighters'[f].stocks \in {allFighters[f].stocks, allFighters[f].stocks - 1}
            /\ allFighters'[f].stocks < allFighters[f].stocks =>
                    lastCall' = "handleKO" /\ ~OutOfPlay(f)
            /\ (lastCall' = "handleKO" /\ OutOfPlay(f)) =>
                    /\ allFighters'[f] = allFighters[f]
                    /\ (f \in DOMAIN respawnTimers) = (f \in DOMAIN respawnTimers')
                    /\ f \in DOMAIN respawnTimers => respawnTimers'[f] = respawnTimers[f]
                    /\ koStreak'[f] = koStreak[f]
            /\ (koStreak'[f] = koStreak[f] + 1) =
                    (allFighters'[f].stocks = allFighters[f].stocks - 1)
            /\ allFighters'[f].stocks = 0 =>
                    /\ f \notin DOMAIN respawnTimers'
                    /\ ~allFighters'[f].visible
                    /\ ~allFighters'[f].bodyEnable]_vars

\* A fighter has just lost its last stock.
C33_Witness ==
    \E f \in DOMAIN allFighters :
        /\ lastCall = "handleKO"
        /\ allFighters[f].stocks = 0
        /\ koStreak[f] > 0
        /\ f \notin DOMAIN respawnTimers

\* The fighter is back in play at its spawn point, as the respawn leaves it.
Returned(f) ==
    /\ f \notin DOMAIN respawnTimers
    /\ allFighters[f].position = spawn(f)
    /\ allFighters[f].visible
    /\ allFighters[f].bodyEnable
    /\ allFighters[f].isInvincible

\* The removal of the respawn's invincibility is outstanding.
RemovalPending(state, f) ==
    \E c \in state : c.fighter = f /\ c.callback = "respawnInvincibleEnd"

\* C34: a KO'd fighter with stocks left waits with a timer of 2000 from which every
\* frame of the playing state takes its delta; the frame that brings the timer to 0
\* or below, and no earlier one, respawns it at its spawn point, visible, enabled
\* and invincible, and schedules the removal of the invincibility 3000 later; the
\* clock step in which that removal falls due leaves the fighter not invincible.
C34_RespawnSteps ==
    [][\A f \in DOMAIN allFighters :
            /\ (f \notin DOMAIN respawnTimers /\ f \in DOMAIN respawnTimers') =>
                    /\ allFighters'[f].stocks > 0
                    /\ respawnTimers'[f] = RESPAWN_DELAY
            /\ (/\ f \in DOMAIN respawnTimers
                /\ lastCall' = "updateRespawnTimer"
                /\ \/ f \notin DOMAIN respawnTimers'
                   \/ respawnTimers'[f] # respawnTimers[f]) =>
                    \E d \in RespawnDeltas :
                        IF respawnTimers[f] - d <= 0
                        THEN /\ Returned(f)'
                             /\ \E c \in delayedCalls' :
                                    /\ c.fighter = f
                                    /\ c.callback = "respawnInvincibleEnd"
                                    /\ c.remaining = INVINCIBILITY_TIME * 1000
                        ELSE /\ f \in DOMAIN respawnTimers'
                             /\ respawnTimers'[f] = respawnTimers[f] - d
                             /\ allFighters'[f] = allFighters[f]
            /\ (f \in DOMAIN respawnTimers /\ f \notin DOMAIN respawnTimers') =>
                    lastCall' = "updateRespawnTimer"
            /\ (RemovalPending(delayedCalls, f) /\ ~RemovalPending(delayedCalls', f)) =>
                    ~allFighters'[f].isInvincible
            /\ \A c \in delayedCalls :
                    c.callback = "respawnInvincibleEnd" =>
                        c.remaining > 0 /\ c.remaining <= INVINCIBILITY_TIME * 1000]_vars

C35_SpecialDamageNeedsAcceptedSpecial ==
    [][(lastCall' = "handlePlayerInput" /\ hits' # {}) =>
            /\ ~allFighters[playerId].isHitstun
            /\ allFighters[playerId].specialCooldown <= 0
            /\ allFighters'[playerId].isUsingSpecial
            /\ allFighters'[playerId].specialCooldown > 0]_vars

(***************************************************************************)
(* Properties of the edgeguard behaviour                                   *)
(***************************************************************************)

\* In the frame at `time` the controller reaches its decision tick and the tick
\* selects edgeguard: no hitstun, no recovery, the interval has passed, the dodge
\* rule cannot apply and the edgeguard rule does.
SelectsEdgeguard(time) ==
    /\ ~view.self.isHitstun
    /\ ~needsRecovery(view.self)
    /\ time - ai.lastDecisionTime > ai.decisionInterval
    /\ findBestTarget(view.enemies) # 0
    /\ LET target == view.enemies[findBestTarget(view.enemies)]
       IN  /\ ~(target.isAttacking /\ target.distance <= 120)
           /\ ai.skill.edgeguardSkill > 30
           /\ shouldEdgeguard(view.self, target)

\* The frame ends with the behaviour reset as the edgeguard timeout resets it.
TimedOutToIdle == ai'.state.currentAction = "idle" /\ ai'.state.actionTimer = 0

\* C37: the timeout does not return an edgeguarding controller to idle before 2000
\* of frame delta have passed since the decision tick that selected edgeguard:
\* neither in the frame of that tick itself, nor in a later frame without a tick
\* that comes less than 2000 after it.
C37_EdgeguardLastsTwoSeconds ==
    [][lastCall' = "update" =>
            /\ SelectsEdgeguard(now') => ~TimedOutToIdle
            /\ (/\ ai.state.currentAction = "edgeguard"
                /\ ai'.lastDecisionTime = ai.lastDecisionTime
                /\ TimedOutToIdle)
                    => now' - ai.lastDecisionTime >= 2000]_vars

(***************************************************************************)
(* Properties of the skill-gated rolls                                     *)
(***************************************************************************)

\* The rating that gates the roll last taken.
Gate ==
    IF lastCall = "shouldDodge" THEN ai.skill.dodgeSkill
    ELSE IF lastCall = "update" THEN ai.skill.inputAccuracy
    ELSE IF lastCall = "handleRecovery" THEN ai.skill.recoverySkill
    ELSE ai.skill.comboAbility

\* With the gating rating at 0 no draw succeeds, with the rating at 1 every draw.
ExtremeRatingDecides ==
    /\ Gate = 0 => ~ret.success
    /\ Gate = 100 => ret.success

\* C38 as stated: the dodge roll, the input-accuracy roll, the attack roll, the
\* combo-length roll and the recovery-direction roll never succeed at rating 0 and
\* always succeed at rating 1.
C38_ExtremeRatingsDecide ==
    lastCall # "none" => ExtremeRatingDecides

\* C38, amended: the dodge roll, the input-accuracy roll, the combo-length roll and
\* the recovery-direction roll never succeed at rating 0 and always succeed at
\* rating 1; the attack roll succeeds exactly when the draw is below
\* 0.3 + 0.5 x comboAbility.
C38_ExtremeRatingsDecideButAttack ==
    /\ lastCall \in {"shouldDodge", "update", "makeDecision", "handleRecovery"} =>
            ExtremeRatingDecides
    /\ lastCall = "attackTarget" =>
            ret.success = (lastRoll < 3000 + 50 * ai.skill.comboAbility)

\* The highest draw passes the input-accuracy roll of a controller rated 1.
C38_Witness ==
    /\ lastCall = "update"
    /\ ai.skill.inputAccuracy = 100
    /\ lastRoll = 9999
    /\ ret.success

====
